---- MODULE Spec2Model ----
(***************************************************************************)
(* Prompt discovery and resolution pipeline of tam-filesystem-mcp.         *)
(*                                                                         *)
(* Strings are sequences of one-character strings, so that the regular     *)
(* expressions, the substring tests and the character scores of the code   *)
(* are computed the way the code computes them.  A filesystem path is a    *)
(* sequence of segments (each a string); the filesystem root is <<>>.      *)
(* JavaScript values are tagged records [t |-> tag, v |-> payload].        *)
(***************************************************************************)
EXTENDS Integers, Sequences, FiniteSets, TLC

VARIABLES
  fs,       \* the filesystem: directory path -> listing (sequence of entries)
  config,   \* the VaultConfig the PromptManager was constructed with
  pc,       \* "idle" | "done": position of the (single) caller
  call,     \* the inputs of the call in progress / last call
  result,   \* what the call returned (or that it threw)
  log       \* the filesystem paths the call listed, read, stat-ed or wrote

vars == <<fs, config, pc, call, result, log>>

----------------------------------------------------------------------------
(* Strings                                                                 *)

\* The characters of the model in UTF-16 code unit order (Array.sort order).
Alphabet ==
  <<"\n", " ", ",", "-", ".", "/", "0", "1", "2", "3", "4", "5", "6", "7",
    "8", "9", ":", "P", "_", "a", "b", "c", "d", "e", "f", "g", "h", "i",
    "j", "k", "l", "m", "n", "o", "p", "q", "r", "s", "t", "u", "v", "w",
    "x", "y", "z", "{", "}">>

CharCode(c) == CHOOSE i \in 1..Len(Alphabet) : Alphabet[i] = c

RECURSIVE Concat(_)
\* Array.join('') of a sequence of strings
Concat(ss) == IF ss = <<>> THEN <<>> ELSE Head(ss) \o Concat(Tail(ss))

\* s.startsWith(p, i-1): p occurs in s at (1-based) position i
MatchAt(s, p, i) ==
  /\ i >= 1
  /\ i + Len(p) - 1 <= Len(s)
  /\ \A k \in 1..Len(p) : s[i + k - 1] = p[k]

StartsWith(s, p) == MatchAt(s, p, 1)

\* String.prototype.includes
Includes(s, p) == \E i \in 1..(Len(s) + 1) : MatchAt(s, p, i)

\* String.prototype.toLowerCase (the only upper-case letter of the alphabet is P)
LowerChar(c) == IF c = "P" THEN "p" ELSE c
ToLowerCase(s) == [i \in 1..Len(s) |-> LowerChar(s[i])]

IsSpace(c) == c \in {" ", "\n"}

RECURSIVE TrimStart(_)
TrimStart(s) == IF s # <<>> /\ IsSpace(Head(s)) THEN TrimStart(Tail(s)) ELSE s

RECURSIVE TrimEnd(_)
TrimEnd(s) ==
  IF s # <<>> /\ IsSpace(s[Len(s)]) THEN TrimEnd(SubSeq(s, 1, Len(s) - 1)) ELSE s

\* String.prototype.trim
Trim(s) == TrimEnd(TrimStart(s))

RECURSIVE SplitAcc(_, _, _)
\* s.split(c) for a one-character separator: cur is the piece being read
SplitAcc(s, c, cur) ==
  IF s = <<>> THEN <<cur>>
  ELSE IF Head(s) = c THEN <<cur>> \o SplitAcc(Tail(s), c, <<>>)
  ELSE SplitAcc(Tail(s), c, Append(cur, Head(s)))

Split(s, c) == SplitAcc(s, c, <<>>)

\* position of the first c in s at or after i, 0 if none (indexOf)
IndexFrom(s, c, i) ==
  IF \E k \in i..Len(s) : s[k] = c
  THEN CHOOSE k \in i..Len(s) : s[k] = c /\ \A m \in i..(k - 1) : s[m] # c
  ELSE 0

\* position of the last c in s, 0 if none (lastIndexOf)
LastIndexOf(s, c) ==
  IF \E k \in 1..Len(s) : s[k] = c
  THEN CHOOSE k \in 1..Len(s) : s[k] = c /\ \A m \in (k + 1)..Len(s) : s[m] # c
  ELSE 0

Range(f) == {f[i] : i \in DOMAIN f}

----------------------------------------------------------------------------
(* JavaScript values                                                       *)

Undefined == [t |-> "undefined"]
Null == [t |-> "null"]
JStr(s) == [t |-> "str", v |-> s]
JNum(n) == [t |-> "num", v |-> n]
\* the numbers that are not finite: NaN, Infinity and -Infinity
NaN == [t |-> "nan"]
Infinity == [t |-> "inf", negative |-> FALSE]
MinusInfinity == [t |-> "inf", negative |-> TRUE]
JBool(b) == [t |-> "bool", v |-> b]
JArr(a) == [t |-> "arr", v |-> a]
\* a structured object with the fields the code reads (absent field: Undefined)
JObj(r) == [t |-> "obj", v |-> r]
\* an object used as a name -> value mapping: its [k, val] entries in order
JMap(entries) == [t |-> "map", v |-> entries]
\* a native function of the given name
JFn(name) == [t |-> "fn", v |-> name]

\* ToBoolean
Truthy(x) ==
  CASE x.t \in {"undefined", "null", "nan"} -> FALSE
    [] x.t = "str" -> x.v # <<>>
    [] x.t = "num" -> x.v # 0
    [] x.t = "bool" -> x.v
    [] OTHER -> TRUE

\* a || b
Or(a, b) == IF Truthy(a) THEN a ELSE b

\* typeof x
TypeOf(x) ==
  CASE x.t = "undefined" -> "undefined"
    [] x.t = "str" -> "string"
    [] x.t \in {"num", "nan", "inf"} -> "number"
    [] x.t = "bool" -> "boolean"
    [] x.t = "fn" -> "function"
    [] OTHER -> "object"

DigitChars == <<"0", "1", "2", "3", "4", "5", "6", "7", "8", "9">>

RECURSIVE Digits(_)
\* decimal digits of a natural number
Digits(n) ==
  IF n < 10 THEN <<DigitChars[n + 1]>>
  ELSE Digits(n \div 10) \o <<DigitChars[(n % 10) + 1]>>

RECURSIVE JoinWith(_, _)
\* Array.join(sep) of a sequence of strings
JoinWith(ss, sep) ==
  IF ss = <<>> THEN <<>>
  ELSE IF Len(ss) = 1 THEN ss[1]
  ELSE ss[1] \o sep \o JoinWith(Tail(ss), sep)

RECURSIVE ToStr(_)
\* String(x)
ToStr(x) ==
  CASE x.t = "str" -> x.v
    [] x.t = "num" ->
         IF x.v < 0 THEN <<"-">> \o Digits(0 - x.v) ELSE Digits(x.v)
    [] x.t = "bool" ->
         IF x.v THEN <<"t", "r", "u", "e">> ELSE <<"f", "a", "l", "s", "e">>
    [] x.t = "nan" -> <<"N", "a", "N">>
    [] x.t = "inf" -> (IF x.negative THEN <<"-">> ELSE <<>>) \o <<"I", "n", "f", "i", "n", "i", "t", "y">>
    [] x.t = "null" -> <<"n", "u", "l", "l">>
    [] x.t = "undefined" -> <<"u", "n", "d", "e", "f", "i", "n", "e", "d">>
    [] x.t = "arr" -> JoinWith([i \in 1..Len(x.v) |-> ToStr(x.v[i])], <<",">>)
    [] x.t = "fn" -> <<"f", "u", "n", "c", "t", "i", "o", "n", " ">> \o x.v
                     \o <<"(", ")", " ", "{", " ", "[", "n", "a", "t", "i", "v", "e", " ", "c", "o", "d", "e", "]", " ", "}">>
    [] OTHER -> <<"[", "o", "b", "j", "e", "c", "t", " ", "O", "b", "j", "e", "c", "t", "]">>

\* the functions every object inherits from Object.prototype under their
\* own names
InheritedFunctions ==
  {<<"h", "a", "s", "O", "w", "n", "P", "r", "o", "p", "e", "r", "t", "y">>,
   <<"i", "s", "P", "r", "o", "t", "o", "t", "y", "p", "e", "O", "f">>,
   <<"p", "r", "o", "p", "e", "r", "t", "y", "I", "s", "E", "n", "u", "m", "e", "r", "a", "b", "l", "e">>,
   <<"t", "o", "L", "o", "c", "a", "l", "e", "S", "t", "r", "i", "n", "g">>,
   <<"t", "o", "S", "t", "r", "i", "n", "g">>,
   <<"v", "a", "l", "u", "e", "O", "f">>,
   <<"_", "_", "d", "e", "f", "i", "n", "e", "G", "e", "t", "t", "e", "r", "_", "_">>,
   <<"_", "_", "d", "e", "f", "i", "n", "e", "S", "e", "t", "t", "e", "r", "_", "_">>,
   <<"_", "_", "l", "o", "o", "k", "u", "p", "G", "e", "t", "t", "e", "r", "_", "_">>,
   <<"_", "_", "l", "o", "o", "k", "u", "p", "S", "e", "t", "t", "e", "r", "_", "_">>}

NameConstructor == <<"c", "o", "n", "s", "t", "r", "u", "c", "t", "o", "r">>
NameProto == <<"_", "_", "p", "r", "o", "t", "o", "_", "_">>

\* the names every plain object inherits from Object.prototype
InheritedNames == InheritedFunctions \cup {NameConstructor, NameProto}

\* Object.prototype[name] for an inherited name
Inherited(name) ==
  IF name = NameConstructor THEN JFn(<<"O", "b", "j", "e", "c", "t">>)
  ELSE IF name = NameProto THEN JObj(<<>>)
  ELSE JFn(name)

\* Object.keys: name is an own key of a bindings mapping (a function)
HasOwn(variables, name) == name \in DOMAIN variables

\* name in variables / variables[name] for a bindings mapping that is a
\* plain object: own keys first, then the names of Object.prototype
Has(variables, name) == HasOwn(variables, name) \/ name \in InheritedNames
Get(variables, name) ==
  IF HasOwn(variables, name) THEN variables[name]
  ELSE IF name \in InheritedNames THEN Inherited(name)
  ELSE Undefined

----------------------------------------------------------------------------
(* Paths (node:path, POSIX)                                                *)

Dot == <<".">>
DotDot == <<".", ".">>

RECURSIVE NormalizeAcc(_, _)
NormalizeAcc(segs, acc) ==
  IF segs = <<>> THEN acc
  ELSE IF Head(segs) = <<>> \/ Head(segs) = Dot THEN NormalizeAcc(Tail(segs), acc)
  ELSE IF Head(segs) = DotDot
    THEN NormalizeAcc(Tail(segs),
                      IF acc = <<>> THEN acc ELSE SubSeq(acc, 1, Len(acc) - 1))
  ELSE NormalizeAcc(Tail(segs), Append(acc, Head(segs)))

\* resolve(join(dir, rel)) for an absolute directory path dir and a string rel
JoinResolve(dir, rel) == NormalizeAcc(dir \o Split(rel, "/"), <<>>)

\* the string form of an absolute path
PathStr(path) ==
  IF path = <<>> THEN <<"/">>
  ELSE Concat([i \in 1..Len(path) |-> <<"/">> \o path[i]])

IsPrefix(a, b) == Len(a) <= Len(b) /\ SubSeq(b, 1, Len(a)) = a

Parent(path) == SubSeq(path, 1, Len(path) - 1)
Basename(path) == path[Len(path)]

\* config.ts resolveVaultPath: the first allowed directory is the vault root
resolveVaultPath(vaultRelativePath, allowedDirectories) ==
  JoinResolve(allowedDirectories[1], vaultRelativePath)

\* path.relative(from, to) of two normalized absolute paths starts with '..'
RelativeStartsWithDotDot(from, to) ==
  IF IsPrefix(from, to)
  THEN Len(to) > Len(from) /\ StartsWith(to[Len(from) + 1], DotDot)
  ELSE TRUE

\* security.ts validateAndNormalizePath: [ok, path]; ok = FALSE is the thrown
\* SecurityError('path_outside_allowed_directories')
validateAndNormalizePath(inputPath, allowedDirectories) ==
  LET normalizedPath == NormalizeAcc(inputPath, <<>>)
  IN  [ok |-> \E i \in 1..Len(allowedDirectories) :
                 ~RelativeStartsWithDotDot(allowedDirectories[i], normalizedPath),
       path |-> normalizedPath]

\* security.ts validateVaultPath
validateVaultPath(vaultRelativePath, vaultRoot, allowedDirectories) ==
  LET cleanPath == IF StartsWith(vaultRelativePath, <<"/">>)
                   THEN Tail(vaultRelativePath) ELSE vaultRelativePath
      fullPath == vaultRoot \o Split(cleanPath, "/")
  IN  validateAndNormalizePath(fullPath, allowedDirectories)

AllowedExtensions == {<<".", "m", "d">>, <<".", "t", "x", "t">>, <<".", "j", "s", "o", "n">>}

\* security.ts isAllowedFileType, on a path or file name given as a string
isAllowedFileType(filePath) ==
  LET pieces == Split(ToLowerCase(filePath), ".")
      extension == pieces[Len(pieces)]
  IN  extension # <<>> /\ (<<".">> \o extension) \in AllowedExtensions

\* a path is inside one of the allowed directories
InsideAllowed(path, allowedDirectories) ==
  \E i \in 1..Len(allowedDirectories) : IsPrefix(allowedDirectories[i], path)

----------------------------------------------------------------------------
(* The filesystem (fs/promises)                                            *)
(*   fs : directory path -> [entries, err]; entries is the listing in      *)
(*   readdir order, each entry [name, kind, doc, readable]; err = TRUE     *)
(*   makes every call on the directory and its entries fail with EACCES.   *)

IsDir(f, path) == path \in DOMAIN f

EntryOf(f, path) ==
  LET es == f[Parent(path)].entries
  IN  es[CHOOSE i \in 1..Len(es) : es[i].name = Basename(path)]

HasEntry(f, path) ==
  /\ path # <<>>
  /\ Parent(path) \in DOMAIN f
  /\ \E i \in 1..Len(f[Parent(path)].entries) :
        f[Parent(path)].entries[i].name = Basename(path)

IsFile(f, path) == HasEntry(f, path) /\ EntryOf(f, path).kind = "file"

\* some proper ancestor of the path is a regular file (ENOTDIR)
UnderFile(f, path) == \E k \in 1..(Len(path) - 1) : IsFile(f, SubSeq(path, 1, k))

\* the path or its parent directory is not accessible (EACCES)
Denied(f, path) ==
  \/ IsDir(f, path) /\ f[path].err
  \/ path # <<>> /\ IsDir(f, Parent(path)) /\ f[Parent(path)].err

\* security.ts getPathInfo: stat; ENOENT gives exists = FALSE, any other
\* error is re-thrown (threw = TRUE)
getPathInfo(f, path) ==
  IF Denied(f, path) \/ UnderFile(f, path)
  THEN [threw |-> TRUE, exists |-> FALSE, isFile |-> FALSE]
  ELSE IF IsDir(f, path) THEN [threw |-> FALSE, exists |-> TRUE, isFile |-> FALSE]
  ELSE IF HasEntry(f, path)
    THEN [threw |-> FALSE, exists |-> TRUE, isFile |-> EntryOf(f, path).kind = "file"]
  ELSE [threw |-> FALSE, exists |-> FALSE, isFile |-> FALSE]

\* readdir(path, {withFileTypes: true}): code is "ok", "ENOENT" or another error
readdir(f, path) ==
  IF IsDir(f, path)
  THEN IF f[path].err THEN [code |-> "EACCES", entries |-> <<>>]
       ELSE [code |-> "ok", entries |-> f[path].entries]
  ELSE IF IsFile(f, path) \/ UnderFile(f, path)
    THEN [code |-> "ENOTDIR", entries |-> <<>>]
  ELSE [code |-> "ENOENT", entries |-> <<>>]

\* readFile(path, 'utf-8'): ok = FALSE is a thrown error
readFile(f, path) ==
  IF IsFile(f, path) /\ ~Denied(f, path) /\ EntryOf(f, path).readable
  THEN [ok |-> TRUE, doc |-> EntryOf(f, path).doc]
  ELSE [ok |-> FALSE]

Access(op, path) == [op |-> op, path |-> path]

----------------------------------------------------------------------------
(* Documents (obsidian.ts).  A file's content is given by what gray-matter *)
(* makes of it: [bad, fm, body]; bad = TRUE is a metadata block on which   *)
(* matter() throws; fm has the fields the code reads (absent: Undefined).  *)

NoFrontmatter ==
  [title |-> Undefined, aliases |-> Undefined, tags |-> Undefined,
   promptVars |-> Undefined, variables |-> Undefined, varsField |-> Undefined]

RECURSIVE SplitRunsAcc(_, _, _, _)
\* s.split(/[seps]+/): inRun = the previous character was a separator
SplitRunsAcc(s, seps, cur, inRun) ==
  IF s = <<>> THEN <<cur>>
  ELSE IF Head(s) \in seps
    THEN IF inRun THEN SplitRunsAcc(Tail(s), seps, cur, TRUE)
         ELSE <<cur>> \o SplitRunsAcc(Tail(s), seps, <<>>, TRUE)
  ELSE SplitRunsAcc(Tail(s), seps, Append(cur, Head(s)), FALSE)

SplitRuns(s, seps) == SplitRunsAcc(s, seps, <<>>, FALSE)

\* obsidian.ts normalizeAliases: a list of strings
normalizeAliases(aliases) ==
  IF ~Truthy(aliases) THEN <<>>
  ELSE IF aliases.t = "str" THEN <<aliases.v>>
  ELSE IF aliases.t = "arr"
    THEN LET IsString(a) == a.t = "str"
             kept == SelectSeq(aliases.v, IsString)
         IN  [i \in 1..Len(kept) |-> kept[i].v]
  ELSE <<>>

\* a variant of normalizeTags that keeps the empty tokens of the split
normalizeTagsUnfiltered(tags) ==
  IF ~Truthy(tags) THEN <<>>
  ELSE IF tags.t = "str" THEN SplitRuns(tags.v, {",", " ", "\n"})
  ELSE IF tags.t = "arr"
    THEN LET IsString(a) == a.t = "str"
             kept == SelectSeq(tags.v, IsString)
         IN  [i \in 1..Len(kept) |-> kept[i].v]
  ELSE <<>>

\* obsidian.ts normalizeTags: a list of strings
normalizeTags(tags) ==
  IF ~Truthy(tags) THEN <<>>
  ELSE IF tags.t = "str"
    THEN LET NonBlank(tag) == Len(Trim(tag)) > 0
         IN  SelectSeq(SplitRuns(tags.v, {",", " ", "\n"}), NonBlank)
  ELSE IF tags.t = "arr"
    THEN LET IsString(a) == a.t = "str"
             kept == SelectSeq(tags.v, IsString)
         IN  [i \in 1..Len(kept) |-> kept[i].v]
  ELSE <<>>

\* obsidian.ts parseObsidianFile; threw = TRUE when matter() throws
parseObsidianFile(doc) ==
  IF doc.bad
  THEN [threw |-> TRUE, frontmatter |-> NoFrontmatter, content |-> <<>>,
        aliases |-> <<>>, tags |-> <<>>]
  ELSE [threw |-> FALSE, frontmatter |-> doc.fm, content |-> Trim(doc.body),
        aliases |-> normalizeAliases(doc.fm.aliases),
        tags |-> normalizeTags(doc.fm.tags)]

----------------------------------------------------------------------------
(* Scores.  A score is a double; the model keeps the rational n/d (d > 0)   *)
(* the arithmetic would give without rounding, and e, the side on which    *)
(* the double the code computes lies of the double nearest to n/d: 1       *)
(* above, -1 below, 0 the same double.  The tables below list the          *)
(* products and sums of the code whose double is not the nearest one, for  *)
(* lengths up to 12 (names, file names and titles here are shorter).       *)

Rounded(n, d, e) == [n |-> n, d |-> d, e |-> e]
Score(n, d) == Rounded(n, d, 0)
Zero == Score(0, 1)
\* a > b on doubles
ScoreGT(a, b) ==
  \/ a.n * b.d > b.n * a.d
  \/ a.n * b.d = b.n * a.d /\ a.e > b.e
ScoreAdd(a, b) == Score(a.n * b.d + b.n * a.d, a.d * b.d)

RECURSIVE GCD(_, _)
GCD(a, b) == IF b = 0 THEN a ELSE GCD(b, a % b)
LowestTerms(n, d) == <<n \div GCD(n, d), d \div GCD(n, d)>>

\* the fractions a/b in lowest terms with 0.8 * (a / b) above the double of 4a/5b
ProductAbove8 ==
  {<<1, 5>>, <<1, 10>>, <<1, 11>>, <<2, 5>>, <<2, 11>>, <<3, 4>>, <<3, 8>>,
   <<4, 5>>, <<4, 11>>, <<5, 6>>, <<5, 7>>, <<5, 9>>, <<5, 12>>, <<7, 8>>,
   <<7, 11>>, <<7, 12>>, <<8, 11>>, <<9, 10>>, <<9, 11>>, <<11, 12>>}

\* and below it
ProductBelow8 ==
  {<<7, 10>>}

\* the fractions a/b in lowest terms with 0.6 * (a / b) above the double of 3a/5b
ProductAbove6 ==
  {<<7, 12>>}

\* and below it
ProductBelow6 ==
  {<<1, 3>>, <<1, 6>>, <<1, 7>>, <<1, 12>>, <<2, 3>>, <<2, 7>>, <<3, 4>>,
   <<3, 8>>, <<3, 11>>, <<4, 7>>, <<6, 11>>, <<7, 11>>, <<11, 12>>}

\* <<a, b, k>>: 0.8 * (a / b) + min(0.5, k * 0.1) is above the double of the exact sum
SumAbove ==
  {<<1, 1, 4>>, <<1, 2, 2>>, <<1, 2, 3>>, <<1, 3, 1>>, <<1, 3, 4>>,
   <<1, 4, 1>>, <<1, 4, 4>>, <<1, 5, 2>>, <<1, 5, 3>>, <<1, 6, 2>>,
   <<1, 7, 1>>, <<1, 7, 4>>, <<1, 8, 2>>, <<1, 9, 2>>, <<1, 9, 3>>,
   <<1, 9, 4>>, <<1, 10, 1>>, <<1, 10, 3>>, <<1, 10, 4>>, <<1, 10, 5>>,
   <<1, 11, 2>>, <<1, 11, 3>>, <<1, 11, 4>>, <<1, 12, 1>>, <<1, 12, 3>>,
   <<2, 3, 2>>, <<2, 5, 1>>, <<2, 5, 3>>, <<2, 5, 4>>, <<2, 5, 5>>,
   <<2, 7, 2>>, <<2, 9, 3>>, <<2, 9, 4>>, <<2, 11, 1>>, <<2, 11, 3>>,
   <<2, 11, 4>>, <<3, 4, 1>>, <<3, 4, 3>>, <<3, 7, 2>>, <<3, 8, 3>>,
   <<3, 8, 4>>, <<3, 11, 2>>, <<4, 5, 1>>, <<4, 5, 2>>, <<4, 5, 3>>,
   <<4, 5, 5>>, <<4, 7, 4>>, <<4, 9, 1>>, <<4, 9, 3>>, <<4, 9, 5>>,
   <<4, 11, 1>>, <<4, 11, 2>>, <<4, 11, 3>>, <<4, 11, 5>>, <<5, 6, 3>>,
   <<5, 6, 4>>, <<5, 7, 1>>, <<5, 7, 2>>, <<5, 7, 3>>, <<5, 7, 4>>,
   <<5, 7, 5>>, <<5, 9, 1>>, <<5, 9, 4>>, <<5, 11, 2>>, <<5, 12, 2>>,
   <<5, 12, 3>>, <<5, 12, 4>>, <<6, 7, 4>>, <<6, 11, 4>>, <<7, 8, 2>>,
   <<7, 8, 5>>, <<7, 11, 2>>, <<7, 11, 3>>, <<7, 11, 4>>, <<7, 11, 5>>,
   <<7, 12, 1>>, <<7, 12, 2>>, <<7, 12, 3>>, <<7, 12, 5>>, <<8, 9, 2>>,
   <<8, 9, 5>>, <<8, 11, 1>>, <<8, 11, 2>>, <<8, 11, 3>>, <<8, 11, 4>>,
   <<8, 11, 5>>, <<9, 10, 1>>, <<9, 10, 2>>, <<9, 10, 5>>, <<9, 11, 1>>,
   <<9, 11, 2>>, <<9, 11, 3>>, <<9, 11, 4>>, <<9, 11, 5>>, <<10, 11, 4>>}

\* and below it
SumBelow ==
  {<<1, 3, 5>>, <<2, 3, 5>>, <<3, 5, 2>>, <<3, 10, 1>>, <<4, 7, 5>>,
   <<6, 11, 5>>, <<7, 10, 1>>}

\* <<n, d, e>>: 0.9 times the score n/d with rounding e is above the double of 9n/10d
TenthsAbove ==
  {<<1, 3, 1>>, <<2, 3, 1>>, <<2, 5, 0>>, <<3, 5, 1>>, <<3, 10, 1>>,
   <<4, 7, 1>>, <<7, 10, 1>>, <<7, 15, 0>>, <<7, 15, 1>>, <<7, 18, 0>>,
   <<7, 20, 1>>, <<8, 25, 1>>, <<9, 22, 0>>, <<12, 35, 0>>, <<16, 25, 1>>,
   <<18, 25, 1>>, <<21, 40, 0>>, <<24, 35, 0>>, <<27, 50, 0>>,
   <<28, 55, 1>>, <<36, 55, 1>>}

\* and below it
TenthsBelow ==
  {<<2, 9, 0>>, <<3, 7, 0>>, <<3, 14, 0>>, <<4, 9, 0>>, <<5, 11, 0>>,
   <<5, 22, 0>>, <<9, 20, -1>>, <<9, 35, 0>>, <<9, 40, -1>>, <<11, 20, -1>>,
   <<18, 35, 0>>, <<18, 55, -1>>}

Direction(key, above, below) ==
  IF key \in above THEN 1 ELSE IF key \in below THEN -1 ELSE 0

\* 0.8 * (a / b)
Product8(a, b) ==
  Rounded(8 * a, 10 * b, Direction(LowestTerms(a, b), ProductAbove8, ProductBelow8))
\* 0.6 * (a / b)
Product6(a, b) ==
  Rounded(6 * a, 10 * b, Direction(LowestTerms(a, b), ProductAbove6, ProductBelow6))
\* Math.min(0.5, occurrences * 0.1): 3 * 0.1 is 0.30000000000000004
BodyScore(occurrences) ==
  Rounded(IF occurrences < 5 THEN occurrences ELSE 5, 10,
          IF occurrences = 3 THEN 1 ELSE 0)
\* score * 0.9
Tenths9(score) ==
  Rounded(9 * score.n, 10 * score.d,
          Direction(LowestTerms(score.n, score.d) \o <<score.e>>,
                    TenthsAbove, TenthsBelow))

RECURSIVE CountChar(_, _)
CountChar(s, c) ==
  IF s = <<>> THEN 0
  ELSE (IF Head(s) = c THEN 1 ELSE 0) + CountChar(Tail(s), c)

Min(a, b) == IF a < b THEN a ELSE b
Max(a, b) == IF a > b THEN a ELSE b

RECURSIVE InsertSorted(_, _)
InsertSorted(sorted, c) ==
  IF sorted = <<>> THEN <<c>>
  ELSE IF CharCode(c) <= CharCode(Head(sorted)) THEN <<c>> \o sorted
  ELSE <<Head(sorted)>> \o InsertSorted(Tail(sorted), c)

RECURSIVE SortChars(_)
\* str.split('').sort()
SortChars(str) ==
  IF str = <<>> THEN <<>> ELSE InsertSorted(SortChars(Tail(str)), Head(str))

RECURSIVE MergeCommon(_, _)
MergeCommon(chars1, chars2) ==
  IF chars1 = <<>> \/ chars2 = <<>> THEN 0
  ELSE IF Head(chars1) = Head(chars2) THEN 1 + MergeCommon(Tail(chars1), Tail(chars2))
  ELSE IF CharCode(Head(chars1)) < CharCode(Head(chars2))
    THEN MergeCommon(Tail(chars1), chars2)
  ELSE MergeCommon(chars1, Tail(chars2))

\* prompts countCommonCharacters
countCommonCharacters(str1, str2) == MergeCommon(SortChars(str1), SortChars(str2))

\* filename.replace(/\.(md|txt)$/, '')
StripMdTxt(filename) ==
  LET n == Len(filename)
  IN  IF n >= 3 /\ SubSeq(filename, n - 2, n) = <<".", "m", "d">>
        THEN SubSeq(filename, 1, n - 3)
      ELSE IF n >= 4 /\ SubSeq(filename, n - 3, n) = <<".", "t", "x", "t">>
        THEN SubSeq(filename, 1, n - 4)
      ELSE filename

WordSeparators == {" ", "\n", "-", "_"}

\* calculateFuzzyScore once the extension is stripped from the file name
FuzzyScoreOf(search, cleanFilename, searchWords, filenameWords) ==
  LET Matched(i) ==
        \E j \in 1..Len(filenameWords) :
           \/ Includes(filenameWords[j], searchWords[i])
           \/ Includes(searchWords[i], filenameWords[j])
      matchedWords == Cardinality({i \in 1..Len(searchWords) : Matched(i)})
      commonChars == countCommonCharacters(search, cleanFilename)
      maxLen == Max(Len(search), Len(cleanFilename))
  IN  IF cleanFilename = search THEN Score(1, 1)
      ELSE IF Includes(cleanFilename, search)
        THEN Product8(Len(search), Len(cleanFilename))
      ELSE IF matchedWords > 0
        THEN Product6(matchedWords, Len(searchWords))
      ELSE IF commonChars * 10 > 4 * maxLen
        THEN Score(5 * commonChars, 10 * maxLen)
      ELSE Zero

\* PromptManager.calculateFuzzyScore
calculateFuzzyScore(search, filename) ==
  FuzzyScoreOf(search, StripMdTxt(filename),
               SplitRuns(search, WordSeparators),
               SplitRuns(StripMdTxt(filename), WordSeparators))

\* the first element of the list with the greatest score: what a stable
\* descending sort puts first
BestIndex(matches) ==
  CHOOSE i \in 1..Len(matches) :
    /\ \A j \in 1..Len(matches) : ~ScoreGT(matches[j].score, matches[i].score)
    /\ \A j \in 1..(i - 1) : ScoreGT(matches[i].score, matches[j].score)

----------------------------------------------------------------------------
(* Discovery stages.  Each returns [found, path, log]: found = FALSE is    *)
(* the null result; log is the sequence of filesystem accesses it made.    *)

NotFound(lg) == [found |-> FALSE, path |-> <<>>, log |-> lg]
Found(path, lg) == [found |-> TRUE, path |-> path, log |-> lg]

ExtMd == <<".", "m", "d">>
ExtTxt == <<".", "t", "x", "t">>

\* the filename variations findExactMatch tries, in order
ExactVariations(name) ==
  <<name, name \o ExtMd, name \o ExtTxt, ToLowerCase(name), ToLowerCase(name) \o ExtMd>>

RECURSIVE ExactLoop(_, _, _, _, _)
\* the for loop of findExactMatch over the remaining variations
ExactLoop(f, cfg, searchPath, variations, lg) ==
  IF variations = <<>> THEN NotFound(lg)
  ELSE LET validated == validateVaultPath(Head(variations), searchPath,
                                          cfg.allowedDirectories)
       IN  IF ~validated.ok THEN ExactLoop(f, cfg, searchPath, Tail(variations), lg)
           ELSE LET pathInfo == getPathInfo(f, validated.path)
                    lg2 == Append(lg, Access("stat", validated.path))
                IN  IF /\ ~pathInfo.threw
                       /\ pathInfo.exists
                       /\ pathInfo.isFile
                       /\ isAllowedFileType(PathStr(validated.path))
                    THEN Found(validated.path, lg2)
                    ELSE ExactLoop(f, cfg, searchPath, Tail(variations), lg2)

\* PromptManager.findExactMatch
findExactMatch(f, cfg, basePath, name) ==
  ExactLoop(f, cfg, resolveVaultPath(basePath, cfg.allowedDirectories),
            ExactVariations(name), <<>>)

\* entries.filter(entry => entry.isFile() && isAllowedFileType(entry.name))
CandidateFiles(entries) ==
  LET Keep(e) == e.kind = "file" /\ isAllowedFileType(e.name)
  IN  SelectSeq(entries, Keep)

\* the aliases of a parsed file as findByAlias reads them
AliasArray(frontmatter) ==
  LET aliases == Or(frontmatter.aliases, JArr(<<>>))
  IN  IF aliases.t = "arr" THEN aliases.v ELSE <<aliases>>

HasAlias(frontmatter, name) ==
  \E i \in 1..Len(AliasArray(frontmatter)) :
     /\ AliasArray(frontmatter)[i].t = "str"
     /\ ToLowerCase(AliasArray(frontmatter)[i].v) = ToLowerCase(name)

RECURSIVE AliasLoopAborting(_, _, _, _, _)
\* a variant of the loop that gives up at the first file it cannot read
AliasLoopAborting(f, searchPath, files, name, lg) ==
  IF files = <<>> THEN NotFound(lg)
  ELSE LET filePath == Append(searchPath, Head(files).name)
           content == readFile(f, filePath)
           lg2 == Append(lg, Access("read", filePath))
       IN  IF ~content.ok THEN NotFound(lg2)
           ELSE LET parsed == parseObsidianFile(content.doc)
                IN  IF ~parsed.threw /\ HasAlias(parsed.frontmatter, name)
                    THEN Found(filePath, lg2)
                    ELSE AliasLoopAborting(f, searchPath, Tail(files), name, lg2)

RECURSIVE AliasLoop(_, _, _, _, _)
\* the for loop of findByAlias over the remaining files
AliasLoop(f, searchPath, files, name, lg) ==
  IF files = <<>> THEN NotFound(lg)
  ELSE LET filePath == Append(searchPath, Head(files).name)
           content == readFile(f, filePath)
           lg2 == Append(lg, Access("read", filePath))
       IN  IF ~content.ok THEN AliasLoop(f, searchPath, Tail(files), name, lg2)
           ELSE LET parsed == parseObsidianFile(content.doc)
                IN  IF ~parsed.threw /\ HasAlias(parsed.frontmatter, name)
                    THEN Found(filePath, lg2)
                    ELSE AliasLoop(f, searchPath, Tail(files), name, lg2)

\* PromptManager.findByAlias
findByAlias(f, cfg, basePath, name) ==
  LET searchPath == resolveVaultPath(basePath, cfg.allowedDirectories)
      listing == readdir(f, searchPath)
      lg == <<Access("list", searchPath)>>
  IN  IF listing.code # "ok" THEN NotFound(lg)
      ELSE AliasLoop(f, searchPath, CandidateFiles(listing.entries), name, lg)

\* the hard-coded minimum score of findFuzzyMatch
FuzzyThreshold == Score(3, 10)

\* the end of findFuzzyMatch: the best of the matches above the threshold
FuzzyBest(f, matches, lg) ==
  IF matches = <<>> THEN NotFound(lg)
  ELSE LET bestMatch == matches[BestIndex(matches)]
           pathInfo == getPathInfo(f, bestMatch.path)
           lg2 == Append(lg, Access("stat", bestMatch.path))
       IN  IF ~pathInfo.threw /\ pathInfo.exists /\ pathInfo.isFile
           THEN Found(bestMatch.path, lg2)
           ELSE NotFound(lg2)

\* PromptManager.findFuzzyMatch
findFuzzyMatch(f, cfg, basePath, name) ==
  LET searchPath == resolveVaultPath(basePath, cfg.allowedDirectories)
      listing == readdir(f, searchPath)
      lg == <<Access("list", searchPath)>>
      files == CandidateFiles(listing.entries)
      scored == [i \in 1..Len(files) |->
                   [name |-> files[i].name,
                    path |-> Append(searchPath, files[i].name),
                    score |-> calculateFuzzyScore(ToLowerCase(name),
                                                  ToLowerCase(files[i].name))]]
      Above(m) == ScoreGT(m.score, FuzzyThreshold)
  IN  IF listing.code # "ok" THEN NotFound(lg)
      ELSE FuzzyBest(f, SelectSeq(scored, Above), lg)

\* the pattern new RegExp(searchLower, 'g') matches s at position i; of the
\* pattern characters only '.' is special in the names of this model
RegexMatchAt(s, pattern, i) ==
  /\ i + Len(pattern) - 1 <= Len(s)
  /\ \A k \in 1..Len(pattern) :
       IF pattern[k] = "." THEN s[i + k - 1] # "\n" ELSE s[i + k - 1] = pattern[k]

RECURSIVE CountMatchesFrom(_, _, _)
\* (s.match(new RegExp(pattern, 'g')) || []).length, scanning from position i
CountMatchesFrom(s, pattern, i) ==
  IF i > Len(s) + 1 THEN 0
  ELSE IF RegexMatchAt(s, pattern, i)
    THEN 1 + CountMatchesFrom(s, pattern, i + Max(Len(pattern), 1))
  ELSE CountMatchesFrom(s, pattern, i + 1)

\* the score findByContent gives one parsed file
ContentScore(parsed, searchLower) ==
  LET title == parsed.frontmatter.title
      titleScore ==
        IF /\ Truthy(title) /\ title.t = "str"
           /\ Includes(ToLowerCase(title.v), searchLower)
        THEN Product8(Len(searchLower), Len(title.v)) ELSE Zero
      contentLower == ToLowerCase(parsed.content)
      occurrences == CountMatchesFrom(contentLower, searchLower, 1)
      bodyScore ==
        IF Includes(contentLower, searchLower)
        THEN BodyScore(occurrences) ELSE Zero
      sum == ScoreAdd(titleScore, bodyScore)
  IN  IF titleScore.n = 0 THEN bodyScore
      ELSE IF bodyScore.n = 0 THEN titleScore
      ELSE Rounded(sum.n, sum.d,
                   Direction(LowestTerms(Len(searchLower), Len(title.v))
                               \o <<bodyScore.n>>, SumAbove, SumBelow))

RECURSIVE ContentLoop(_, _, _, _, _, _)
\* the for loop of findByContent: [matches, log]
ContentLoop(f, searchPath, files, searchLower, matches, lg) ==
  IF files = <<>> THEN [matches |-> matches, log |-> lg]
  ELSE LET filePath == Append(searchPath, Head(files).name)
           content == readFile(f, filePath)
           lg2 == Append(lg, Access("read", filePath))
           Scored(score) ==
             IF ~ScoreGT(score, Zero)
             THEN ContentLoop(f, searchPath, Tail(files), searchLower, matches, lg2)
             ELSE ContentLoop(f, searchPath, Tail(files), searchLower,
                              Append(matches, [path |-> filePath, score |-> score]),
                              lg2)
       IN  IF ~content.ok \/ parseObsidianFile(content.doc).threw
           THEN ContentLoop(f, searchPath, Tail(files), searchLower, matches, lg2)
           ELSE Scored(ContentScore(parseObsidianFile(content.doc), searchLower))

\* the minimum score of findByContent
ContentThreshold == Score(2, 10)

\* the end of findByContent: the best of the scored files
ContentBest(scan) ==
  IF scan.matches = <<>> THEN NotFound(scan.log)
  ELSE LET bestMatch == scan.matches[BestIndex(scan.matches)]
       IN  IF ScoreGT(bestMatch.score, ContentThreshold)
           THEN Found(bestMatch.path, scan.log)
           ELSE NotFound(scan.log)

\* PromptManager.findByContent
findByContent(f, cfg, basePath, name) ==
  LET searchPath == resolveVaultPath(basePath, cfg.allowedDirectories)
      listing == readdir(f, searchPath)
      lg == <<Access("list", searchPath)>>
  IN  IF listing.code # "ok" THEN NotFound(lg)
      ELSE ContentBest(ContentLoop(f, searchPath, CandidateFiles(listing.entries),
                                   ToLowerCase(name), <<>>, lg))

----------------------------------------------------------------------------
(* Suggestions and the discovery cascade                                   *)

\* the minimum score of a suggestion
SuggestionThreshold == Score(2, 10)

\* the suggestion a scored name gives: none unless its score is above the
\* threshold; the score of an alias is lowered by the factor 0.9
Suggestion(name, score, factor) ==
  IF ScoreGT(score, SuggestionThreshold)
  THEN <<[name |-> name, score |-> IF factor = 9 THEN Tenths9(score) ELSE score]>>
  ELSE <<>>

\* the suggestions the aliases of one parsed file give
AliasSuggestions(aliasArray, name) ==
  Concat([i \in 1..Len(aliasArray) |->
            IF aliasArray[i].t = "str"
            THEN Suggestion(aliasArray[i].v,
                            calculateFuzzyScore(ToLowerCase(name),
                                                ToLowerCase(aliasArray[i].v)), 9)
            ELSE <<>>])

\* the suggestions one file contributes: its name, then its aliases
FileSuggestions(f, searchPath, entry, name) ==
  LET content == readFile(f, Append(searchPath, entry.name))
  IN  Suggestion(StripMdTxt(entry.name),
                 calculateFuzzyScore(ToLowerCase(name),
                                     ToLowerCase(StripMdTxt(entry.name))), 10)
      \o (IF ~content.ok \/ parseObsidianFile(content.doc).threw THEN <<>>
          ELSE AliasSuggestions(AliasArray(parseObsidianFile(content.doc).frontmatter),
                                name))

RECURSIVE SuggestFiles(_, _, _, _, _, _)
\* the inner for loop of getSuggestions: [all, log]
SuggestFiles(f, searchPath, files, name, all, lg) ==
  IF files = <<>> THEN [all |-> all, log |-> lg]
  ELSE SuggestFiles(f, searchPath, Tail(files), name,
                    all \o FileSuggestions(f, searchPath, Head(files), name),
                    Append(lg, Access("read", Append(searchPath, Head(files).name))))

RECURSIVE SuggestPaths(_, _, _, _, _, _)
\* the outer for loop of getSuggestions: [all, log]
SuggestPaths(f, cfg, searchPaths, name, all, lg) ==
  IF searchPaths = <<>> THEN [all |-> all, log |-> lg]
  ELSE LET basePath == Head(searchPaths)
           searchPath == IF StartsWith(basePath, <<"/">>)
                         THEN NormalizeAcc(Split(basePath, "/"), <<>>)
                         ELSE resolveVaultPath(basePath, cfg.allowedDirectories)
           listing == readdir(f, searchPath)
           lg2 == Append(lg, Access("list", searchPath))
           Scanned(scan) ==
             SuggestPaths(f, cfg, Tail(searchPaths), name, scan.all, scan.log)
       IN  IF listing.code # "ok"
           THEN SuggestPaths(f, cfg, Tail(searchPaths), name, all, lg2)
           ELSE Scanned(SuggestFiles(f, searchPath, CandidateFiles(listing.entries),
                                     name, all, lg2))

RECURSIVE SortByScore(_)
\* Array.sort((a, b) => b.score - a.score): stable, descending
SortByScore(list) ==
  IF list = <<>> THEN <<>>
  ELSE LET i == BestIndex(list)
       IN  <<list[i]>> \o SortByScore(SubSeq(list, 1, i - 1)
                                        \o SubSeq(list, i + 1, Len(list)))

MaxSuggestions == 5

\* the end of getSuggestions: the names of the best suggestions
TopSuggestions(sorted) ==
  [i \in 1..Min(MaxSuggestions, Len(sorted)) |-> sorted[i].name]

\* PromptManager.getSuggestions: [names, log]
getSuggestions(f, cfg, searchPaths, name) ==
  LET Scanned(scan) == [names |-> TopSuggestions(SortByScore(scan.all)),
                        log |-> scan.log]
  IN  Scanned(SuggestPaths(f, cfg, searchPaths, name, <<>>, <<>>))

\* searchPaths || [config.promptsPath, config.templatesPath]
SearchPathsOf(cfg, searchPaths) ==
  IF searchPaths.t = "arr" THEN searchPaths.v
  ELSE <<cfg.promptsPath, cfg.templatesPath>>

\* the result of a discovery: stage is the stage that matched ("none": the
\* 'Prompt not found' Error was thrown)
Discovered(stage, r, lg) ==
  [found |-> r.found, stage |-> stage, path |-> r.path, log |-> lg \o r.log]

\* a variant of Cascade that lets a fuzzy match win over the other stages
CascadeFuzzyFirst(lg, exactMatch, aliasMatch, fuzzyMatch, contentMatch) ==
  IF fuzzyMatch.found
  THEN Discovered("fuzzy", fuzzyMatch, lg \o exactMatch.log \o aliasMatch.log)
  ELSE IF exactMatch.found THEN Discovered("exact", exactMatch, lg)
  ELSE IF aliasMatch.found
    THEN Discovered("alias", aliasMatch, lg \o exactMatch.log)
  ELSE Discovered(IF contentMatch.found THEN "content" ELSE "none", contentMatch,
                  lg \o exactMatch.log \o aliasMatch.log \o fuzzyMatch.log)

\* the four stages in one base directory: the first that finds a file;
\* when none does, the accesses of all four
Cascade(lg, exactMatch, aliasMatch, fuzzyMatch, contentMatch) ==
  IF exactMatch.found THEN Discovered("exact", exactMatch, lg)
  ELSE IF aliasMatch.found
    THEN Discovered("alias", aliasMatch, lg \o exactMatch.log)
  ELSE IF fuzzyMatch.found
    THEN Discovered("fuzzy", fuzzyMatch, lg \o exactMatch.log \o aliasMatch.log)
  ELSE Discovered(IF contentMatch.found THEN "content" ELSE "none", contentMatch,
                  lg \o exactMatch.log \o aliasMatch.log \o fuzzyMatch.log)

\* a variant of DiscoverLoop that looks for an exact match in every base
\* directory before anything else
RECURSIVE DiscoverLoopExactAnywhere(_, _, _, _, _)
DiscoverLoopExactAnywhere(f, cfg, paths, name, lg) ==
  IF paths = <<>> THEN Discovered("none", NotFound(<<>>), lg)
  ELSE LET Tried(exactMatch) ==
             IF exactMatch.found THEN Discovered("exact", exactMatch, lg)
             ELSE DiscoverLoopExactAnywhere(f, cfg, Tail(paths), name,
                                            lg \o exactMatch.log)
       IN  Tried(findExactMatch(f, cfg, Head(paths), name))

RECURSIVE DiscoverLoop(_, _, _, _, _)
\* the for loop of discoverPrompt over the remaining base paths
DiscoverLoop(f, cfg, paths, name, lg) ==
  IF paths = <<>> THEN Discovered("none", NotFound(<<>>), lg)
  ELSE LET Tried(here) ==
             IF here.found THEN here
             ELSE DiscoverLoop(f, cfg, Tail(paths), name, here.log)
       IN  Tried(Cascade(lg,
                         findExactMatch(f, cfg, Head(paths), name),
                         findByAlias(f, cfg, Head(paths), name),
                         findFuzzyMatch(f, cfg, Head(paths), name),
                         findByContent(f, cfg, Head(paths), name)))

\* the end of discoverPrompt: when nothing was found the suggestions are
\* computed for the message of the 'Prompt not found' Error
Suggested(search, suggestions) ==
  IF search.found THEN search
  ELSE [search EXCEPT !.log = search.log \o suggestions.log]

\* PromptManager.discoverPrompt (with the four stages and the suggestions)
discoverPrompt(f, cfg, name, searchPaths) ==
  LET paths == SearchPathsOf(cfg, searchPaths)
      absolutePaths ==
        [i \in 1..Len(paths) |->
           IF StartsWith(paths[i], <<"/">>) THEN paths[i]
           ELSE PathStr(resolveVaultPath(paths[i], cfg.allowedDirectories))]
  IN  Suggested(DiscoverLoop(f, cfg, paths, name, <<>>),
                getSuggestions(f, cfg, absolutePaths, name))

\* the stages of the first phase: findByAlias, findFuzzyMatch and
\* findByContent only log and return null
RECURSIVE DiscoverLoopPhase1(_, _, _, _, _)
DiscoverLoopPhase1(f, cfg, paths, name, lg) ==
  IF paths = <<>> THEN Discovered("none", NotFound(<<>>), lg)
  ELSE LET Tried(exactMatch) ==
             IF exactMatch.found THEN Discovered("exact", exactMatch, lg)
             ELSE DiscoverLoopPhase1(f, cfg, Tail(paths), name, lg \o exactMatch.log)
       IN  Tried(findExactMatch(f, cfg, Head(paths), name))

\* PromptManager.discoverPrompt of the first phase (exact stage only)
discoverPromptPhase1(f, cfg, name, searchPaths) ==
  DiscoverLoopPhase1(f, cfg, SearchPathsOf(cfg, searchPaths), name, <<>>)

----------------------------------------------------------------------------
(* Variable specifications (obsidian.ts)                                   *)

NoSpecFields ==
  [name |-> Undefined, type |-> Undefined, required |-> Undefined,
   default |-> Undefined, options |-> Undefined, description |-> Undefined]

TypeString == <<"s", "t", "r", "i", "n", "g">>
TypeNumber == <<"n", "u", "m", "b", "e", "r">>
TypeBoolean == <<"b", "o", "o", "l", "e", "a", "n">>
TypeDate == <<"d", "a", "t", "e">>
NameUnknown == <<"u", "n", "k", "n", "o", "w", "n">>

\* a property key or name read from a value
KeyOf(x) == ToStr(x)

\* a variant of parseVariableSpec in which an object declares a required
\* variable only by setting required to true
parseVariableSpecOptional(spec, name) ==
  IF spec.t = "str"
  THEN [name |-> KeyOf(Or(name, spec)), type |-> TypeString, required |-> TRUE,
        default |-> Undefined, options |-> Undefined, description |-> Undefined]
  ELSE IF TypeOf(spec) = "object" /\ spec.t # "null"
  THEN LET o == IF spec.t = "obj" THEN spec.v ELSE NoSpecFields
       IN  [name |-> KeyOf(Or(Or(name, o.name), JStr(NameUnknown))),
            type |-> KeyOf(Or(o.type, JStr(TypeString))),
            required |-> o.required = JBool(TRUE),
            default |-> o.default,
            options |-> o.options,
            description |-> o.description]
  ELSE [name |-> KeyOf(Or(name, JStr(ToStr(spec)))), type |-> TypeString,
        required |-> TRUE,
        default |-> Undefined, options |-> Undefined, description |-> Undefined]

\* obsidian.ts parseVariableSpec; name = Undefined when no name is passed
parseVariableSpec(spec, name) ==
  IF spec.t = "str"
  THEN [name |-> KeyOf(Or(name, spec)), type |-> TypeString, required |-> TRUE,
        default |-> Undefined, options |-> Undefined, description |-> Undefined]
  ELSE IF TypeOf(spec) = "object" /\ spec.t # "null"
  THEN LET o == IF spec.t = "obj" THEN spec.v ELSE NoSpecFields
       IN  [name |-> KeyOf(Or(Or(name, o.name), JStr(NameUnknown))),
            type |-> KeyOf(Or(o.type, JStr(TypeString))),
            required |-> o.required # JBool(FALSE),
            default |-> o.default,
            options |-> o.options,
            description |-> o.description]
  ELSE [name |-> KeyOf(Or(name, JStr(ToStr(spec)))), type |-> TypeString,
        required |-> TRUE,
        default |-> Undefined, options |-> Undefined, description |-> Undefined]

\* obsidian.ts extractVariableSpecs
extractVariableSpecs(frontmatter) ==
  LET promptVars == Or(Or(frontmatter.promptVars, frontmatter.variables),
                       frontmatter.varsField)
  IN  IF ~Truthy(promptVars) THEN <<>>
      ELSE IF promptVars.t = "arr"
        THEN [i \in 1..Len(promptVars.v) |-> parseVariableSpec(promptVars.v[i], Undefined)]
      ELSE IF promptVars.t = "map"
        THEN [i \in 1..Len(promptVars.v) |->
                parseVariableSpec(promptVars.v[i].val, JStr(promptVars.v[i].k))]
      ELSE <<>>

\* the number two decimal digits write
IsDigit(c) == c \in Range(DigitChars)
DigitValue(c) == CHOOSE n \in 0..9 : DigitChars[n + 1] = c
TwoDigits(s, i) == 10 * DigitValue(s[i]) + DigitValue(s[i + 1])

\* !isNaN(new Date(value).getTime()); the strings of the model are the ones
\* without a digit (no date) and the ten-character YYYY-MM-DD ones
ValidDate(value) ==
  CASE value.t = "str" ->
         /\ Len(value.v) = 10
         /\ value.v[5] = "-" /\ value.v[8] = "-"
         /\ \A i \in {1, 2, 3, 4, 6, 7, 9, 10} : IsDigit(value.v[i])
         /\ TwoDigits(value.v, 6) \in 1..12
         /\ TwoDigits(value.v, 9) \in 1..31
    \* a finite number is a time value (the numbers of the model are small)
    [] value.t = "num" -> TRUE
    [] value.t \in {"bool", "null"} -> TRUE
    [] OTHER -> FALSE

\* obsidian.ts validateVariableType: "none", or the kind of the error
validateVariableType(spec, value) ==
  LET typeError ==
        CASE spec.type = TypeString -> TypeOf(value) # "string"
          [] spec.type = TypeNumber -> TypeOf(value) # "number" \/ value = NaN
          [] spec.type = TypeBoolean -> TypeOf(value) # "boolean"
          [] spec.type = TypeDate -> ~ValidDate(value)
          [] OTHER -> FALSE
      optionError ==
        /\ Truthy(spec.options)
        /\ spec.options.t = "arr"
        /\ ~(\E i \in 1..Len(spec.options.v) : spec.options.v[i] = value)
  IN  IF typeError THEN "type" ELSE IF optionError THEN "options" ELSE "none"

RECURSIVE ValidateLoopFirstFailure(_, _, _, _)
\* a variant of the loop that returns at the first spec it reports
ValidateLoopFirstFailure(specs, provided, missing, errors) ==
  IF specs = <<>> THEN [missing |-> missing, errors |-> errors]
  ELSE LET spec == Head(specs)
           value == Get(provided, spec.name)
           typeError == validateVariableType(spec, value)
       IN  IF spec.required /\ (value = Undefined \/ value = Null \/ value = JStr(<<>>))
           THEN [missing |-> Append(missing, spec), errors |-> errors]
           ELSE IF value = Undefined /\ ~spec.required
           THEN ValidateLoopFirstFailure(Tail(specs), provided, missing, errors)
           ELSE IF typeError # "none"
           THEN [missing |-> missing,
                 errors |-> Append(errors, [name |-> spec.name, kind |-> typeError])]
           ELSE ValidateLoopFirstFailure(Tail(specs), provided, missing, errors)

RECURSIVE ValidateLoop(_, _, _, _)
\* the for loop of validateVariables: [missing, errors]
ValidateLoop(specs, provided, missing, errors) ==
  IF specs = <<>> THEN [missing |-> missing, errors |-> errors]
  ELSE LET spec == Head(specs)
           value == Get(provided, spec.name)
           typeError == validateVariableType(spec, value)
       IN  IF spec.required /\ (value = Undefined \/ value = Null \/ value = JStr(<<>>))
           THEN ValidateLoop(Tail(specs), provided, Append(missing, spec), errors)
           ELSE IF value = Undefined /\ ~spec.required
           THEN ValidateLoop(Tail(specs), provided, missing, errors)
           ELSE IF typeError # "none"
           THEN ValidateLoop(Tail(specs), provided, missing,
                             Append(errors, [name |-> spec.name, kind |-> typeError]))
           ELSE ValidateLoop(Tail(specs), provided, missing, errors)

\* obsidian.ts validateVariables
validateVariables(specs, provided) ==
  LET v == ValidateLoop(specs, provided, <<>>, <<>>)
  IN  [isValid |-> v.missing = <<>> /\ v.errors = <<>>,
       missing |-> v.missing, errors |-> v.errors]

NamesOf(specs) == [i \in 1..Len(specs) |-> specs[i].name]

\* PromptManager.validateVariables: the missing specs as names
validateVariablesNames(specs, providedVars) ==
  LET validation == validateVariables(specs, providedVars)
  IN  [isValid |-> validation.isValid,
       missing |-> NamesOf(validation.missing),
       errors |-> validation.errors]

RECURSIVE MergeLoop(_, _)
MergeLoop(merged, specs) ==
  IF specs = <<>> THEN merged
  ELSE LET spec == Head(specs)
       IN  IF spec.default # Undefined /\ ~Has(merged, spec.name)
           THEN MergeLoop([n \in DOMAIN merged \cup {spec.name} |->
                             IF n = spec.name THEN spec.default ELSE merged[n]],
                          Tail(specs))
           ELSE MergeLoop(merged, Tail(specs))

\* a variant of mergeVariablesWithDefaults that merges no default in
mergeWithoutDefaults(variables, specs) == variables

\* PromptManager.mergeVariablesWithDefaults
mergeVariablesWithDefaults(variables, specs) == MergeLoop(variables, specs)

----------------------------------------------------------------------------
(* Placeholders: the matches of /\{\{([^}]+)\}\}/g                         *)

\* the placeholder {{name}}
Placeholder(name) == <<"{", "{">> \o name \o <<"}", "}">>

\* the end (position of the second closing brace) of a match that starts
\* at position i, 0 if there is none
PlaceholderEnd(s, i) ==
  IF i + 1 <= Len(s) /\ s[i] = "{" /\ s[i + 1] = "{"
  THEN LET k == IndexFrom(s, "}", i + 2)
       IN  IF k > i + 2 /\ k + 1 <= Len(s) /\ s[k + 1] = "}" THEN k + 1 ELSE 0
  ELSE 0

RECURSIVE TokensFrom(_, _, _)
\* the text from position i on, cut into literal pieces [lit] and matches
\* [match, expr] in order; cur is the literal piece being read
TokensFrom(s, i, cur) ==
  IF i > Len(s)
  THEN IF cur = <<>> THEN <<>> ELSE <<[kind |-> "lit", text |-> cur]>>
  ELSE LET e == PlaceholderEnd(s, i)
       IN  IF e = 0 THEN TokensFrom(s, i + 1, Append(cur, s[i]))
           ELSE (IF cur = <<>> THEN <<>> ELSE <<[kind |-> "lit", text |-> cur]>>)
                \o <<[kind |-> "match", text |-> SubSeq(s, i, e),
                      expr |-> SubSeq(s, i + 2, e - 2)]>>
                \o TokensFrom(s, e + 1, <<>>)

Tokens(s) == TokensFrom(s, 1, <<>>)

\* String.prototype.replace(/\{\{([^}]+)\}\}/g, fn): Replacement(token) is
\* what fn returns for a match
ReplaceTokens(tokens, Replacement(_)) ==
  Concat([i \in 1..Len(tokens) |->
            IF tokens[i].kind = "lit" THEN tokens[i].text ELSE Replacement(tokens[i])])

RECURSIVE Dedup(_, _)
\* [...new Set(list)]: first occurrences, in order
Dedup(list, seen) ==
  IF list = <<>> THEN <<>>
  ELSE IF Head(list) \in seen THEN Dedup(Tail(list), seen)
  ELSE <<Head(list)>> \o Dedup(Tail(list), seen \cup {Head(list)})

\* the callback of substituteVariables applied to the matches in order
SubstituteTokens(tokens, variables) ==
  LET Parts(tok) == Split(tok.expr, ":")
      VarName(tok) == Trim(Parts(tok)[1])
      HasDefault(tok) == Len(Parts(tok)) >= 2
      DefaultValue(tok) == Trim(Parts(tok)[2])
      Replacement(tok) ==
        IF Has(variables, VarName(tok)) THEN ToStr(Get(variables, VarName(tok)))
        ELSE IF HasDefault(tok) THEN DefaultValue(tok)
        ELSE tok.text
      IsUse(tok) == tok.kind = "match"
                    /\ (Has(variables, VarName(tok)) \/ HasDefault(tok))
      IsMiss(tok) == tok.kind = "match"
                     /\ ~Has(variables, VarName(tok)) /\ ~HasDefault(tok)
      uses == SelectSeq(tokens, IsUse)
      misses == SelectSeq(tokens, IsMiss)
      usedNames == {VarName(uses[i]) : i \in 1..Len(uses)}
      LastUse(n) == uses[CHOOSE i \in 1..Len(uses) :
                           /\ VarName(uses[i]) = n
                           /\ \A j \in (i + 1)..Len(uses) : VarName(uses[j]) # n]
  IN  [content |-> ReplaceTokens(tokens, Replacement),
       usedVariables |->
         [n \in usedNames |->
            IF Has(variables, n) THEN Get(variables, n) ELSE JStr(DefaultValue(LastUse(n)))],
       missingVariables |-> Dedup([i \in 1..Len(misses) |-> VarName(misses[i])], {})]

\* PromptManager.substituteVariables
substituteVariables(content, variables) == SubstituteTokens(Tokens(content), variables)

----------------------------------------------------------------------------
(* TemplateProcessor (templates.ts)                                        *)

\* TemplateProcessor.substituteVariables
templateSubstituteVariables(content, variables) ==
  LET Parts(tok) == Split(tok.expr, ":")
      Replacement(tok) ==
        LET value == Get(variables, Trim(Parts(tok)[1]))
        IN  IF value # Undefined THEN ToStr(value)
            ELSE IF Len(Parts(tok)) >= 2 /\ Parts(tok)[2] # <<>> THEN Parts(tok)[2]
            ELSE tok.text
  IN  ReplaceTokens(Tokens(content), Replacement)

RECURSIVE ReplaceAll(_, _, _)
\* s.replace(/pattern/g, replacement) for a literal pattern
ReplaceAll(s, pattern, replacement) ==
  IF s = <<>> THEN <<>>
  ELSE IF MatchAt(s, pattern, 1)
    THEN replacement \o ReplaceAll(SubSeq(s, Len(pattern) + 1, Len(s)), pattern, replacement)
  ELSE <<Head(s)>> \o ReplaceAll(Tail(s), pattern, replacement)

TpFileTitle == <<"t", "p", ".", "f", "i", "l", "e", ".", "t", "i", "t", "l", "e">>

\* TemplateProcessor.extractFileTitle: basename without its last extension
extractFileTitle(filePath) ==
  LET fileName == Basename(filePath)
      dot == LastIndexOf(fileName, ".")
  IN  IF dot > 0 /\ dot < Len(fileName) THEN SubSeq(fileName, 1, dot - 1) ELSE fileName

\* TemplateProcessor.resolveTemplaterFunctions.  The tp.date.now(),
\* tp.date.today(), tp.date.tomorrow() and tp.file.folder() patterns all need
\* a '(' and no string of the model holds one: only tp.file.title can occur.
resolveTemplaterFunctions(content, filePath) ==
  ReplaceAll(content, TpFileTitle, extractFileTitle(filePath))

\* TemplateProcessor.processTemplate
processTemplate(cfg, content, variables, filePath) ==
  LET processedContent == IF cfg.templaterLite
                          THEN resolveTemplaterFunctions(content, filePath)
                          ELSE content
  IN  templateSubstituteVariables(processedContent, variables)

----------------------------------------------------------------------------
(* Action analysis and automatic file creation (prompts.ts)                *)

\* the longest prefix of s without whitespace: what ([^\s]+) captures
RECURSIVE NonSpaceRun(_)
NonSpaceRun(s) ==
  IF s = <<>> \/ IsSpace(Head(s)) THEN <<>> ELSE <<Head(s)>> \o NonSpaceRun(Tail(s))

\* what ([^\s]+) captures of the text after the keyword and its \s*
CaptureOf(rest) == NonSpaceRun(TrimStart(rest))

\* line.match(/keyword\s*([^\s]+)/i)[1] searching from position i; <<>> when
\* the line has no match
RECURSIVE KeywordCaptureFrom(_, _, _)
KeywordCaptureFrom(line, keyword, i) ==
  IF i > Len(line) THEN <<>>
  ELSE IF MatchAt(ToLowerCase(line), keyword, i)
          /\ CaptureOf(SubSeq(line, i + Len(keyword), Len(line))) # <<>>
    THEN CaptureOf(SubSeq(line, i + Len(keyword), Len(line)))
  ELSE KeywordCaptureFrom(line, keyword, i + 1)

KeywordFilename == <<"f", "i", "l", "e", "n", "a", "m", "e", ":">>
KeywordLocation == <<"l", "o", "c", "a", "t", "i", "o", "n", ":">>

\* the end of extractFilePath: the leading '/' is cut, and '.md' is added
\* to a path without a '.'
RelativePath(path) ==
  LET relative == IF StartsWith(path, <<"/">>) THEN Tail(path) ELSE path
  IN  IF Includes(relative, <<".">>) THEN relative ELSE relative \o ExtMd

\* PromptManager.extractFilePath
extractFilePath(rawPath, variables) ==
  LET Replacement(tok) ==
        IF Truthy(Get(variables, Trim(tok.expr)))
        THEN ToStr(Get(variables, Trim(tok.expr))) ELSE tok.text
  IN  RelativePath(ReplaceTokens(Tokens(Trim(rawPath)), Replacement))

CreateFile(path, content) ==
  [type |-> "create_file", path |-> path, content |-> content,
   confidence |-> Score(9, 10), autoExecutable |-> TRUE]

\* the recommendation of a pattern whose group captured a path (<<>>: the
\* pattern did not match)
Recommended(capture, content, variables) ==
  IF capture = <<>> THEN <<>>
  ELSE <<CreateFile(extractFilePath(capture, variables), content)>>

\* the recommendations one line gives.  Of the file creation patterns only
\* /filename:\s*([^\s]+)/i and /location:\s*([^\s]+)/i are computed: the
\* other patterns, the README detection and the task patterns need one of
\* the words create, write, save, generate, output, readme, update, check,
\* mark, which no document body and no variable value of the model holds.
LineRecommendations(content, line, variables) ==
  Recommended(KeywordCaptureFrom(line, KeywordFilename, 1), content, variables)
  \o Recommended(KeywordCaptureFrom(line, KeywordLocation, 1), content, variables)

\* the end of analyzeForActions: of the recommendations with the same type
\* and path the first is kept
DedupedRecommendations(recommendations) ==
  LET FirstIndex(rec) == CHOOSE i \in 1..Len(recommendations) :
                           /\ recommendations[i].path = rec.path
                           /\ \A j \in 1..(i - 1) : recommendations[j].path # rec.path
      kept == SelectSeq([i \in 1..Len(recommendations) |->
                           [rec |-> recommendations[i], index |-> i]],
                        LAMBDA x : FirstIndex(x.rec) = x.index)
  IN  [i \in 1..Len(kept) |-> kept[i].rec]

\* the loop of analyzeForActions over the lines
LinesRecommendations(content, lines, variables) ==
  Concat([i \in 1..Len(lines) |-> LineRecommendations(content, lines[i], variables)])

\* PromptManager.analyzeForActions
analyzeForActions(content, variables) ==
  DedupedRecommendations(LinesRecommendations(content, Split(content, "\n"),
                                              variables))

maxAttempts == 100

\* stands for the ISO timestamp of the fallback name
Timestamp == <<"0">>

IncrementedPath(originalPath, suffix) ==
  LET filename == Basename(originalPath)
      lastDot == LastIndexOf(filename, ".")
      baseName == IF lastDot = 0 THEN filename ELSE SubSeq(filename, 1, lastDot - 1)
      extension == IF lastDot = 0 THEN <<>> ELSE SubSeq(filename, lastDot, Len(filename))
  IN  Append(Parent(originalPath), baseName \o <<"-">> \o suffix \o extension)

\* the while loop of findAvailableFilePath
RECURSIVE IncrementLoop(_, _, _, _)
IncrementLoop(f, originalPath, counter, lg) ==
  IF counter > maxAttempts
  THEN [threw |-> FALSE, path |-> IncrementedPath(originalPath, Timestamp),
        incremented |-> TRUE, log |-> lg]
  ELSE LET incrementedPath == IncrementedPath(originalPath, Digits(counter))
           info == getPathInfo(f, incrementedPath)
           lg2 == Append(lg, Access("stat", incrementedPath))
       IN  IF info.threw
           THEN [threw |-> TRUE, path |-> <<>>, incremented |-> FALSE, log |-> lg2]
           ELSE IF ~info.exists
           THEN [threw |-> FALSE, path |-> incrementedPath, incremented |-> TRUE,
                 log |-> lg2]
           ELSE IncrementLoop(f, originalPath, counter + 1, lg2)

\* PromptManager.findAvailableFilePath
findAvailableFilePath(f, originalPath, lg) ==
  LET pathInfo == getPathInfo(f, originalPath)
      lg2 == Append(lg, Access("stat", originalPath))
  IN  IF pathInfo.threw
      THEN [threw |-> TRUE, path |-> <<>>, incremented |-> FALSE, log |-> lg2]
      ELSE IF ~pathInfo.exists
      THEN [threw |-> FALSE, path |-> originalPath, incremented |-> FALSE, log |-> lg2]
      ELSE IncrementLoop(f, originalPath, 2, lg2)

\* what gray-matter reads back from a written text.  No text the model
\* writes begins with the frontmatter delimiter, so it is all body.
WrittenDoc(content) == [bad |-> FALSE, fm |-> NoFrontmatter, body |-> content]

\* mkdir(dir, {recursive: true}): [ok, fs]; ok = FALSE is a thrown error
RECURSIVE mkdir(_, _)
mkdir(f, dir) ==
  IF IsDir(f, dir) THEN [ok |-> ~Denied(f, dir), fs |-> f]
  ELSE IF dir = <<>> \/ HasEntry(f, dir) THEN [ok |-> FALSE, fs |-> f]
  ELSE LET up == mkdir(f, Parent(dir))
       IN  IF ~up.ok THEN [ok |-> FALSE, fs |-> f]
           ELSE [ok |-> TRUE,
                 fs |-> [d \in DOMAIN up.fs \cup {dir} |->
                           IF d = dir THEN [entries |-> <<>>, err |-> FALSE]
                           ELSE IF d = Parent(dir)
                             THEN [up.fs[d] EXCEPT !.entries =
                                     Append(@, [name |-> Basename(dir), kind |-> "dir",
                                                doc |-> WrittenDoc(<<>>),
                                                readable |-> TRUE])]
                           ELSE up.fs[d]]]

\* writeFile(path, content, 'utf-8'): [ok, fs]
writeFile(f, path, content) ==
  IF path = <<>> \/ ~IsDir(f, Parent(path)) \/ Denied(f, path) \/ IsDir(f, path)
  THEN [ok |-> FALSE, fs |-> f]
  ELSE IF HasEntry(f, path)
  THEN [ok |-> EntryOf(f, path).readable,
        fs |-> IF EntryOf(f, path).readable
               THEN [f EXCEPT ![Parent(path)].entries =
                       [i \in 1..Len(@) |->
                          IF @[i].name = Basename(path)
                          THEN [@[i] EXCEPT !.doc = WrittenDoc(content)] ELSE @[i]]]
               ELSE f]
  ELSE [ok |-> TRUE,
        fs |-> [f EXCEPT ![Parent(path)].entries =
                  Append(@, [name |-> Basename(path), kind |-> "file",
                             doc |-> WrittenDoc(content), readable |-> TRUE])]]

ExecutionFailed(f, lg) ==
  [fs |-> f, log |-> lg,
   result |-> [success |-> FALSE, path |-> <<>>, wasIncremented |-> FALSE]]

\* the end of executeFileCreation, once the final path is known: mkdir of
\* its directory, then writeFile
WriteAt(f, finalPath, content, incremented, lg, made) ==
  LET lg2 == Append(lg, Access("mkdir", Parent(finalPath)))
      lg3 == Append(lg2, Access("write", finalPath))
      Written(written) ==
        IF ~written.ok THEN ExecutionFailed(written.fs, lg3)
        ELSE [fs |-> written.fs, log |-> lg3,
              result |-> [success |-> TRUE, path |-> finalPath,
                          wasIncremented |-> incremented]]
  IN  IF ~made.ok THEN ExecutionFailed(made.fs, lg2)
      ELSE Written(writeFile(made.fs, finalPath, content))

\* executeFileCreation from the answer of findAvailableFilePath on
CreateAt(f, content, availablePath) ==
  IF availablePath.threw \/ availablePath.path = <<>>
  THEN ExecutionFailed(f, availablePath.log)
  ELSE WriteAt(f, availablePath.path, content, availablePath.incremented,
               availablePath.log, mkdir(f, Parent(availablePath.path)))

\* PromptManager.executeFileCreation: any error of its steps is caught and
\* reported as an unsuccessful execution
executeFileCreation(f, cfg, action, lg) ==
  IF action.path = <<>> \/ action.content = <<>> THEN ExecutionFailed(f, lg)
  ELSE CreateAt(f, action.content,
                findAvailableFilePath(f, resolveVaultPath(action.path,
                                                          cfg.allowedDirectories),
                                      lg))

\* step 7 of getPrompted: the auto-executable recommendations of confidence
\* above 0.8, executed in order
RECURSIVE ExecuteLoop(_, _, _, _, _)
ExecuteLoop(f, cfg, actions, executionResults, lg) ==
  IF actions = <<>> THEN [fs |-> f, executionResults |-> executionResults, log |-> lg]
  ELSE LET Executed(done) ==
             ExecuteLoop(done.fs, cfg, Tail(actions),
                         Append(executionResults, done.result), done.log)
       IN  Executed(executeFileCreation(f, cfg, Head(actions), lg))

----------------------------------------------------------------------------
(* PromptManager results                                                   *)

NoError == [code |-> "none", message |-> "none", missing |-> <<>>, errors |-> <<>>]

\* an error thrown inside getPrompted: EnhancedMcpError(code, message, details)
\* when enhanced, a plain Error(message) otherwise
Thrown(enhanced, code, message, missing, errors) ==
  [enhanced |-> enhanced, code |-> code, message |-> message,
   missing |-> missing, errors |-> errors]

PlainError(message) == Thrown(FALSE, "none", message, <<>>, <<>>)

NoChosen == [path |-> <<>>, aliases |-> <<>>, tags |-> <<>>]

\* PromptManager.createErrorResult
createErrorResult(error) ==
  [resolved |-> FALSE,
   chosen |-> NoChosen,
   content |-> <<>>,
   variablesUsed |-> <<>>,
   missingVariables |-> <<>>,
   templaterProcessed |-> FALSE,
   variableInterpolation |-> FALSE,
   autoExecuted |-> FALSE,
   executionResults |-> <<>>,
   hasError |-> TRUE,
   error |-> [code |-> IF error.enhanced THEN error.code ELSE "unknown_error",
              message |-> error.message,
              missing |-> IF error.enhanced THEN error.missing ELSE <<>>,
              errors |-> IF error.enhanced THEN error.errors ELSE <<>>]]

\* PromptManager.convertMissingVariablesToSpecs
convertMissingVariablesToSpecs(missingVariables, frontmatter) ==
  LET specs == extractVariableSpecs(frontmatter)
      Existing(varName) == \E i \in 1..Len(specs) : specs[i].name = varName
      First(varName) ==
        specs[CHOOSE i \in 1..Len(specs) :
                /\ specs[i].name = varName
                /\ \A j \in 1..(i - 1) : specs[j].name # varName]
  IN  [k \in 1..Len(missingVariables) |->
         IF Existing(missingVariables[k]) THEN First(missingVariables[k])
         ELSE [name |-> missingVariables[k], type |-> TypeString, required |-> TRUE,
               default |-> Undefined, options |-> Undefined,
               description |-> JStr(missingVariables[k])]]

\* PromptManager.createSuccessResult
createSuccessResult(cfg, promptPath, processedContent, usedVariables, missingVariables, frontmatter, executionResults) ==
  [resolved |-> TRUE,
   chosen |-> [path |-> promptPath,
               aliases |-> normalizeAliases(frontmatter.aliases),
               tags |-> normalizeTags(frontmatter.tags)],
   content |-> processedContent,
   variablesUsed |-> usedVariables,
   missingVariables |-> convertMissingVariablesToSpecs(missingVariables, frontmatter),
   templaterProcessed |-> cfg.templaterLite,
   variableInterpolation |-> TRUE,
   autoExecuted |-> Len(executionResults) > 0,
   executionResults |-> executionResults,
   hasError |-> FALSE,
   error |-> NoError]

MissingHeading ==
  <<"#", " ", "M", "i", "s", "s", "i", "n", "g", " ", "R", "e", "q", "u",
    "i", "r", "e", "d", " ", "V", "a", "r", "i", "a", "b", "l", "e", "s",
    " ", "f", "o", "r", " ", "\"">>

MissingIntro ==
  <<"\"", "\n", "\n", "T", "h", "i", "s", " ", "p", "r", "o", "m", "p",
    "t", " ", "r", "e", "q", "u", "i", "r", "e", "s", " ", "t", "h", "e",
    " ", "f", "o", "l", "l", "o", "w", "i", "n", "g", " ", "v", "a", "r",
    "i", "a", "b", "l", "e", "s", " ", "t", "o", " ", "b", "e", " ", "p",
    "r", "o", "v", "i", "d", "e", "d", ":", "\n", "\n">>

MissingOutro ==
  <<"\n", "\n", "P", "l", "e", "a", "s", "e", " ", "p", "r", "o", "v", "i",
    "d", "e", " ", "v", "a", "l", "u", "e", "s", " ", "f", "o", "r", " ",
    "t", "h", "e", "s", "e", " ", "v", "a", "r", "i", "a", "b", "l", "e",
    "s", " ", "a", "n", "d", " ", "c", "a", "l", "l", " ", "g", "e", "t",
    "_", "p", "r", "o", "m", "p", "t", "e", "d", " ", "a", "g", "a", "i",
    "n", " ", "w", "i", "t", "h", " ", "t", "h", "e", " ", "v", "a", "r",
    "i", "a", "b", "l", "e", "s", " ", "p", "a", "r", "a", "m", "e", "t",
    "e", "r", ".">>

\* basename(promptPath, extname(promptPath))
FileNameOf(promptPath) ==
  LET base == Basename(promptPath)
      dot == LastIndexOf(base, ".")
  IN  IF dot > 1 THEN SubSeq(base, 1, dot - 1) ELSE base

\* PromptManager.createMissingVariablesResult (part_002)
createMissingVariablesResult(promptPath, missingVariables, frontmatter) ==
  LET Item(v) == <<"-", " ", "*", "*">> \o v.name \o <<"*", "*", " ", "(">> \o v.type
                 \o <<")">>
                 \o (IF Truthy(v.description)
                     THEN <<":", " ">> \o ToStr(v.description) ELSE <<>>)
      variableList == JoinWith([i \in 1..Len(missingVariables) |->
                                  Item(missingVariables[i])], <<"\n">>)
      title == IF Truthy(frontmatter.title) THEN ToStr(frontmatter.title)
               ELSE FileNameOf(promptPath)
  IN  [resolved |-> TRUE,
       chosen |-> [path |-> promptPath, aliases |-> <<>>, tags |-> <<>>],
       content |-> MissingHeading \o title \o MissingIntro \o variableList
                   \o MissingOutro,
       variablesUsed |-> <<>>,
       missingVariables |-> missingVariables,
       templaterProcessed |-> FALSE,
       variableInterpolation |-> FALSE,
       autoExecuted |-> FALSE,
       executionResults |-> <<>>,
       hasError |-> FALSE,
       error |-> NoError]

\* PromptManager.loadPromptFile: ok = FALSE is the thrown
\* Error('Failed to load prompt file ...')
loadPromptFile(f, filePath) ==
  LET content == readFile(f, filePath)
      parsed == parseObsidianFile(content.doc)
  IN  IF ~content.ok \/ parsed.threw
      THEN [ok |-> FALSE, content |-> <<>>, frontmatter |-> NoFrontmatter]
      ELSE [ok |-> TRUE, content |-> parsed.content, frontmatter |-> parsed.frontmatter]

----------------------------------------------------------------------------
(* PromptManager.getPrompted                                               *)

\* what a call leaves behind: what it returned, the filesystem accesses it
\* made, and the filesystem after it
Outcome(res, lg, f) == [result |-> res, log |-> lg, fs |-> f]

\* a value is a thrown error, not a GetPromptedResult
IsThrown(x) == "enhanced" \in DOMAIN x

\* a variant of Catch that handles EnhancedMcpError only
CatchEnhanced(out) ==
  IF IsThrown(out.result) /\ out.result.enhanced
  THEN [out EXCEPT !.result = createErrorResult(out.result)]
  ELSE out

\* the catch clause of getPrompted: every error becomes createErrorResult
Catch(out) ==
  IF IsThrown(out.result) THEN [out EXCEPT !.result = createErrorResult(out.result)]
  ELSE out

AutoExecutableThreshold == Score(8, 10)

\* steps 6 to 8 of getPrompted: the actions the processed content asks for
\* are executed and the successful result is built
Processed(f, cfg, promptPath, frontmatter, mergedVariables, substitutionResult, lg) ==
  LET autoExecutable ==
        SelectSeq(analyzeForActions(substitutionResult.content, mergedVariables),
                  LAMBDA a : a.autoExecutable
                             /\ ScoreGT(a.confidence, AutoExecutableThreshold))
      Executed(executed) ==
        Outcome(createSuccessResult(cfg, promptPath, substitutionResult.content,
                                    substitutionResult.usedVariables,
                                    substitutionResult.missingVariables,
                                    frontmatter, executed.executionResults),
                executed.log, executed.fs)
  IN  Executed(ExecuteLoop(f, cfg, autoExecutable, <<>>, lg))

\* step 5 of getPrompted: the templater pass, when enabled, then the
\* placeholder substitution
Validated(f, cfg, promptPath, loaded, mergedVariables, options, lg) ==
  Processed(f, cfg, promptPath, loaded.frontmatter, mergedVariables,
            substituteVariables(
              IF options.processTemplater /\ cfg.templaterLite
              THEN processTemplate(cfg, loaded.content, mergedVariables, promptPath)
              ELSE loaded.content,
              mergedVariables),
            lg)

\* step 4 of getPrompted: in strict mode an invalid validation is thrown
Merged(f, cfg, promptPath, loaded, specVariables, mergedVariables, options, lg) ==
  LET Checked(validation) ==
        IF (options.strictVariables \/ Len(specVariables) > 0)
           /\ ~validation.isValid /\ options.strictVariables
        THEN Outcome(Thrown(TRUE, "missing_required_variables",
                            "Missing required variables",
                            validation.missing, validation.errors), lg, f)
        ELSE Validated(f, cfg, promptPath, loaded, mergedVariables, options, lg)
  IN  Checked(validateVariablesNames(specVariables, mergedVariables))

\* step 3 of getPrompted: the defaults of the specifications are merged in
Loaded(f, cfg, promptPath, loaded, specVariables, variables, options, lg) ==
  Merged(f, cfg, promptPath, loaded, specVariables,
         mergeVariablesWithDefaults(variables, specVariables), options, lg)

\* steps 2 to 8 of the try block of getPrompted (prompts.ts), for the file
\* that discovery chose
resolvePrompt(f, cfg, promptPath, variables, options, lg) ==
  LET lg2 == Append(lg, Access("read", promptPath))
      Read(loaded) ==
        IF ~loaded.ok THEN Outcome(PlainError("Failed to load prompt file"), lg2, f)
        ELSE Loaded(f, cfg, promptPath, loaded,
                    extractVariableSpecs(loaded.frontmatter), variables, options, lg2)
  IN  Read(loadPromptFile(f, promptPath))

\* the try block of getPrompted (prompts.ts)
getPromptedTry(f, cfg, promptName, variables, options) ==
  LET Discovery(discovery) ==
        IF ~discovery.found
        THEN Outcome(PlainError("Prompt not found"), discovery.log, f)
        ELSE resolvePrompt(f, cfg, discovery.path, variables, options, discovery.log)
  IN  Discovery(discoverPromptPhase1(f, cfg, promptName, options.searchPaths))

\* PromptManager.getPrompted (prompts.ts)
getPrompted(f, cfg, promptName, variables, options) ==
  Catch(getPromptedTry(f, cfg, promptName, variables, options))

\* PromptManager.findMissingRequiredVariables (part_002)
findMissingRequiredVariables(specVariables, providedVariables) ==
  SelectSeq(specVariables,
            LAMBDA spec : spec.required /\ ~Has(providedVariables, spec.name))

\* step 5 of the simplified getPrompted: the result of a substitution
ProcessedSimplified(f, cfg, promptPath, frontmatter, substitutionResult, lg) ==
  Outcome(createSuccessResult(cfg, promptPath, substitutionResult.content,
                              substitutionResult.usedVariables,
                              substitutionResult.missingVariables,
                              frontmatter, <<>>), lg, f)

\* step 3 of the simplified getPrompted: missing required variables end the
\* call with a result that asks for them
LoadedSimplified(f, cfg, promptPath, loaded, specVariables, mergedVariables, missingRequired, options, lg) ==
  IF Len(missingRequired) > 0
  THEN Outcome(createMissingVariablesResult(promptPath, missingRequired,
                                            loaded.frontmatter), lg, f)
  ELSE ProcessedSimplified(f, cfg, promptPath, loaded.frontmatter,
         substituteVariables(
           IF options.processTemplater /\ cfg.templaterLite
           THEN processTemplate(cfg, loaded.content, mergedVariables, promptPath)
           ELSE loaded.content,
           mergedVariables),
         lg)

\* steps 2 to 5 of the try block of the simplified getPrompted (part_002)
resolvePromptSimplified(f, cfg, promptPath, variables, options, lg) ==
  LET lg2 == Append(lg, Access("read", promptPath))
      Specified(loaded, specVariables) ==
        LoadedSimplified(f, cfg, promptPath, loaded, specVariables,
                         mergeVariablesWithDefaults(variables, specVariables),
                         findMissingRequiredVariables(specVariables, variables),
                         options, lg2)
      Read(loaded) ==
        IF ~loaded.ok THEN Outcome(PlainError("Failed to load prompt file"), lg2, f)
        ELSE Specified(loaded, extractVariableSpecs(loaded.frontmatter))
  IN  Read(loadPromptFile(f, promptPath))

\* the try block of the simplified getPrompted (part_002), with the
\* four-stage discovery
getPromptedSimplifiedTry(f, cfg, promptName, variables, options) ==
  LET Discovery(discovery) ==
        IF ~discovery.found
        THEN Outcome(PlainError("Prompt not found"), discovery.log, f)
        ELSE resolvePromptSimplified(f, cfg, discovery.path, variables, options,
                                     discovery.log)
  IN  Discovery(discoverPrompt(f, cfg, promptName, options.searchPaths))

\* the simplified PromptManager.getPrompted (part_002)
getPromptedSimplified(f, cfg, promptName, variables, options) ==
  Catch(getPromptedSimplifiedTry(f, cfg, promptName, variables, options))

----------------------------------------------------------------------------
(* The vault of the model                                                  *)
(*   /v        the vault root, the only allowed directory                  *)
(*   /v/p      the prompts directory (config.promptsPath)                  *)
(*   /v/t      the templates directory (config.templatesPath)              *)
(*   /o        a directory outside the vault                               *)

Vault == <<<<"v">>>>
PromptsPath == <<"p">>
TemplatesPath == <<"t">>
OutsidePath == <<".", ".", "/", "o">>

VaultConfig(templaterLite) ==
  [allowedDirectories |-> <<Vault>>, promptsPath |-> PromptsPath,
   templatesPath |-> TemplatesPath, templaterLite |-> templaterLite]

File(name, doc) == [name |-> name, kind |-> "file", doc |-> doc, readable |-> TRUE]
Folder(name) == [name |-> name, kind |-> "dir", doc |-> WrittenDoc(<<>>), readable |-> TRUE]
Listing(entries) == [entries |-> entries, err |-> FALSE]
\* a directory on which every call fails with EACCES
ErrListing(entries) == [entries |-> entries, err |-> TRUE]

\* a text file without a metadata block
Plain(body) == [bad |-> FALSE, fm |-> NoFrontmatter, body |-> body]
\* a file whose metadata block gray-matter cannot parse
Malformed == [bad |-> TRUE, fm |-> NoFrontmatter, body |-> <<>>]

\* the filesystem with the given listings of /v/p, /v/t and /o
Tree(prompts, templates, outside) ==
  (<<>> :> Listing(<<Folder(<<"v">>), Folder(<<"o">>)>>))
  @@ (Vault :> Listing(<<Folder(PromptsPath), Folder(TemplatesPath)>>))
  @@ (<<<<"v">>, <<"p">>>> :> Listing(prompts))
  @@ (<<<<"v">>, <<"t">>>> :> Listing(templates))
  @@ (<<<<"o">>>> :> Listing(outside))

\* the number of directory entries of a filesystem
RECURSIVE EntryCount(_, _)
EntryCount(f, dirs) ==
  IF dirs = {} THEN 0
  ELSE LET d == CHOOSE x \in dirs : TRUE
       IN  Len(f[d].entries) + EntryCount(f, dirs \ {d})

FileCount(f) == EntryCount(f, DOMAIN f)

NoCall == [handler |-> "none"]
NoResult == [resolved |-> FALSE, hasError |-> FALSE]

\* the options of a call: searchPaths is a list of strings or undefined,
\* processTemplater = FALSE is the explicit false (anything else enables it)
Options(searchPaths, strictVariables, processTemplater) ==
  [searchPaths |-> searchPaths, strictVariables |-> strictVariables,
   processTemplater |-> processTemplater]

Call(handler, promptName, variables, options) ==
  [handler |-> handler, promptName |-> promptName, variables |-> variables,
   options |-> options]

\* no bindings: the default {} of the variables parameter
NoVariables == <<>>

\* the most directory entries a filesystem holds after a call that creates
\* files
MaxFiles == 8

\* the call c made on the current filesystem
Handle(c) ==
  IF c.handler = "getPrompted"
  THEN getPrompted(fs, config, c.promptName, c.variables, c.options)
  ELSE getPromptedSimplified(fs, config, c.promptName, c.variables, c.options)

\* the call c returns out
Deliver(c, out) ==
  /\ out.fs = fs \/ FileCount(out.fs) <= MaxFiles
  /\ fs' = out.fs
  /\ result' = out.result
  /\ log' = out.log
  /\ call' = c
  /\ pc' = "done"
  /\ UNCHANGED config

\* one whole call of a handler, from its invocation to its return value
Invoke(c) == Deliver(c, Handle(c))

\* the caller takes the result; the next call starts from the filesystem
\* the last one left
Return ==
  /\ pc = "done"
  /\ pc' = "idle"
  /\ call' = NoCall
  /\ result' = NoResult
  /\ log' = <<>>
  /\ UNCHANGED <<fs, config>>

----------------------------------------------------------------------------
(* Discovery: calls over vaults whose files match a name at different      *)
(* stages and in different directories                                     *)

NameN == <<"n">>
NameNMd == <<"n", ".", "m", "d">>
NameQ == <<"q">>
NameZ == <<"z", "z">>
\* a name that leads from a base directory of the vault to /o/q
NameEscaping == <<".", ".", "/", ".", ".", "/", "o", "/", "q">>

FileN == <<"n", ".", "m", "d">>
FileNMd == <<"n", ".", "m", "d", ".", "m", "d">>
FileNx == <<"n", "x", ".", "m", "d">>
FileM == <<"m", ".", "m", "d">>
FileK == <<"k", ".", "m", "d">>
FileQ == <<"q", ".", "m", "d">>

\* a file that lists n among its aliases
Aliased == [bad |-> FALSE,
            fm |-> [NoFrontmatter EXCEPT !.aliases = JArr(<<JStr(NameN)>>)],
            body |-> <<"x">>]
\* a file whose body mentions n three times
Mentions == Plain(<<"n", " ", "n", " ", "n">>)

\* prompt-vars: ["a"], body "filename: p/k.md/x {{a}}"
Demanding ==
  [bad |-> FALSE,
   fm |-> [NoFrontmatter EXCEPT !.promptVars = JArr(<<JStr(<<"a">>)>>)],
   body |-> <<"f", "i", "l", "e", "n", "a", "m", "e", ":", " ", "p", "/", "k", ".",
              "m", "d", "/", "x", " ", "{", "{", "a", "}", "}">>]

\* a file that cannot be read
Unreadable(name, doc) == [name |-> name, kind |-> "file", doc |-> doc, readable |-> FALSE]

\* a vault whose prompts directory cannot be accessed and whose templates
\* directory holds an unreadable file before the file with the alias
TreeWithErrors ==
  (<<>> :> Listing(<<Folder(<<"v">>), Folder(<<"o">>)>>))
  @@ (Vault :> Listing(<<Folder(PromptsPath), Folder(TemplatesPath)>>))
  @@ (<<<<"v">>, <<"p">>>> :> ErrListing(<<File(FileN, Plain(<<"x">>))>>))
  @@ (<<<<"v">>, <<"t">>>> :> Listing(<<Unreadable(FileK, Aliased), File(FileM, Aliased)>>))
  @@ (<<<<"o">>>> :> Listing(<<>>))

\* a file name without extension that spells an extension
FileMd == <<"m", "d">>

\* a vault without a prompts directory; its templates directory holds a file
\* named md that declares the alias, before m.md that declares it too
TreeWithoutPrompts ==
  (<<>> :> Listing(<<Folder(<<"v">>), Folder(<<"o">>)>>))
  @@ (Vault :> Listing(<<Folder(TemplatesPath)>>))
  @@ (<<<<"v">>, <<"t">>>> :> Listing(<<File(FileQ, Plain(<<"x">>)), File(FileMd, Aliased),
                                        File(FileM, Aliased)>>))
  @@ (<<<<"o">>>> :> Listing(<<>>))

DiscoveryFs ==
  { \* exact match n.md next to n.md.md, which scores higher for "n.md"
    Tree(<<File(FileNMd, Plain(<<"x">>)), File(FileN, Plain(<<"y">>))>>,
         <<File(FileN, Plain(<<"t">>))>>,
         <<File(FileQ, Plain(<<"o">>))>>),
    \* alias, fuzzy and content matches in /v/p, the exact match in /v/t
    Tree(<<File(FileK, Mentions), File(FileNx, Plain(<<"x">>)), File(FileM, Aliased)>>,
         <<File(FileN, Plain(<<"t">>))>>,
         <<File(FileN, Plain(<<"o">>))>>),
    \* fuzzy and content matches only
    Tree(<<File(FileK, Mentions), File(FileNx, Plain(<<"x">>))>>,
         <<File(FileK, Mentions)>>,
         <<>>),
    \* a content match, a file that cannot be parsed, and a file that
    \* declares a variable and names a file that cannot be created
    Tree(<<File(FileK, Mentions)>>,
         <<File(FileQ, Malformed), File(FileN, Demanding)>>,
         <<File(FileM, Aliased)>>),
    TreeWithErrors,
    TreeWithoutPrompts }

DiscoveryNames == {NameN, NameNMd, NameQ, NameZ, NameEscaping}

\* the most directories a caller lists in searchPaths
MaxSearchPaths == 2

RECURSIVE SeqsUpTo(_, _)
\* the sequences over S of length at most n
SeqsUpTo(S, n) ==
  IF n = 0 THEN {<<>>}
  ELSE LET shorter == SeqsUpTo(S, n - 1)
       IN  shorter \cup {Append(q, x) : q \in shorter, x \in S}

DiscoverySearchPaths ==
  {Undefined} \cup
  {JArr(q) : q \in SeqsUpTo({PromptsPath, TemplatesPath, OutsidePath}, MaxSearchPaths)
                   \ {<<>>}}

DiscoveryCalls(handler) ==
  {Call(handler, name, NoVariables, Options(searchPaths, strict, TRUE)) :
     name \in DiscoveryNames, searchPaths \in DiscoverySearchPaths,
     strict \in BOOLEAN}

Init ==
  /\ fs \in DiscoveryFs
  /\ config = VaultConfig(TRUE)
  /\ pc = "idle"
  /\ call = NoCall
  /\ result = NoResult
  /\ log = <<>>

\* a call of getPrompted (prompts.ts)
GetPrompted ==
  /\ pc = "idle"
  /\ \E c \in DiscoveryCalls("getPrompted") : Invoke(c)

\* a call of the simplified getPrompted (part_002)
GetPromptedSimplified ==
  /\ pc = "idle"
  /\ \E c \in DiscoveryCalls("getPromptedSimplified") : Invoke(c)

Next == GetPrompted \/ GetPromptedSimplified \/ Return

Spec == Init /\ [][Next]_vars

----------------------------------------------------------------------------
(* Variables: calls on documents that declare and use variables            *)

VarA == <<"a">>
VarB == <<"b">>
VarG == <<"g">>

NameS1 == <<"s", "1">>
NameS2 == <<"s", "2">>
NameS3 == <<"s", "3">>
NameS4 == <<"s", "4">>

\* prompt-vars: ["a"], body "x {{a}}"
DocS1 ==
  [bad |-> FALSE,
   fm |-> [NoFrontmatter EXCEPT !.promptVars = JArr(<<JStr(VarA)>>)],
   body |-> <<"x", " ", "{", "{", "a", "}", "}">>]

\* no specifications, body "{{g:hi}} {{a}}"
DocS2 ==
  Plain(<<"{", "{", "g", ":", "h", "i", "}", "}", " ", "{", "{", "a", "}", "}">>)

\* prompt-vars: {a: {type: number}, b: {default: "d"}}, body "{{a}}-{{b}}"
DocS3 ==
  [bad |-> FALSE,
   fm |-> [NoFrontmatter EXCEPT !.promptVars =
             JMap(<<[k |-> VarA,
                     val |-> JObj([NoSpecFields EXCEPT !.type = JStr(TypeNumber)])],
                    [k |-> VarB,
                     val |-> JObj([NoSpecFields EXCEPT !.default = JStr(<<"d">>)])]>>)],
   body |-> <<"{", "{", "a", "}", "}", "-", "{", "{", "b", "}", "}">>]

\* no specifications, body "{{g:{{b}}}}": the default of g is "{{b"
DocS4 ==
  Plain(<<"{", "{", "g", ":", "{", "{", "b", "}", "}", "}", "}">>)

VariablesFs ==
  Tree(<<File(NameS1 \o ExtMd, DocS1), File(NameS2 \o ExtMd, DocS2),
         File(NameS3 \o ExtMd, DocS3), File(NameS4 \o ExtMd, DocS4)>>,
       <<>>, <<>>)

VariablesNames == {NameS1, NameS2, NameS3, NameS4}

\* the text "{{b}}": a value that is itself a placeholder
PlaceholderB == <<"{", "{", "b", "}", "}">>

\* what a caller binds a name to; Undefined stands for leaving it out
ValuesOfA == {Undefined, Null, JStr(<<>>), JStr(<<"x">>), JNum(1), JStr(PlaceholderB)}
ValuesOfB == {Undefined, Null, JStr(<<"y">>)}

Bindings(a, b) ==
  [n \in {VarA : x \in {a} \ {Undefined}} \cup {VarB : x \in {b} \ {Undefined}} |->
     IF n = VarA THEN a ELSE b]

VariablesCalls(handler) ==
  {Call(handler, name, Bindings(a, b), Options(Undefined, strict, templater)) :
     name \in VariablesNames, a \in ValuesOfA, b \in ValuesOfB,
     strict \in BOOLEAN, templater \in BOOLEAN}

InitVariables ==
  /\ fs = VariablesFs
  /\ config \in {VaultConfig(templaterLite) : templaterLite \in BOOLEAN}
  /\ pc = "idle"
  /\ call = NoCall
  /\ result = NoResult
  /\ log = <<>>

\* a call of getPrompted (prompts.ts) with variable bindings
GetPromptedVariables ==
  /\ pc = "idle"
  /\ \E c \in VariablesCalls("getPrompted") : Invoke(c)

\* a call of the simplified getPrompted (part_002) with variable bindings
GetPromptedSimplifiedVariables ==
  /\ pc = "idle"
  /\ \E c \in VariablesCalls("getPromptedSimplified") : Invoke(c)

NextVariables == GetPromptedVariables \/ GetPromptedSimplifiedVariables \/ Return

SpecVariables == InitVariables /\ [][NextVariables]_vars

----------------------------------------------------------------------------
(* File creation: calls on a document whose body names a file to create    *)

NameC == <<"c">>

\* body "filename: {{a}}"
DocC ==
  Plain(<<"f", "i", "l", "e", "n", "a", "m", "e", ":", " ", "{", "{", "a", "}", "}">>)

CreationFs == Tree(<<File(NameC \o ExtMd, DocC)>>, <<>>, <<>>)

\* the paths a caller asks for: a new file of the vault, a file outside the
\* vault, the prompt file itself, a path below the prompt file
CreationTargets ==
  { <<"n">>,
    <<".", ".", "/", "o", "/", "n", ".", "m", "d">>,
    <<"p", "/", "c", ".", "m", "d">>,
    <<"p", "/", "c", ".", "m", "d", "/", "x">> }

CreationCalls(handler) ==
  {Call(handler, NameC, Bindings(a, Undefined), Options(Undefined, FALSE, templater)) :
     a \in {Undefined} \cup {JStr(t) : t \in CreationTargets},
     templater \in BOOLEAN}

InitCreation ==
  /\ fs = CreationFs
  /\ config = VaultConfig(TRUE)
  /\ pc = "idle"
  /\ call = NoCall
  /\ result = NoResult
  /\ log = <<>>

\* a call of getPrompted (prompts.ts) whose result asks for a file
GetPromptedCreation ==
  /\ pc = "idle"
  /\ \E c \in CreationCalls("getPrompted") : Invoke(c)

\* a call of the simplified getPrompted (part_002) on the same document
GetPromptedSimplifiedCreation ==
  /\ pc = "idle"
  /\ \E c \in CreationCalls("getPromptedSimplified") : Invoke(c)

NextCreation == GetPromptedCreation \/ GetPromptedSimplifiedCreation \/ Return

SpecCreation == InitCreation /\ [][NextCreation]_vars

----------------------------------------------------------------------------
(* Substitution: substituteVariables applied to bodies made of literal     *)
(* text and placeholders, with bindings of falsy and inherited names       *)

NameToString == <<"t", "o", "S", "t", "r", "i", "n", "g">>
DefaultD == <<"d">>
NoDefault == [t |-> "undefined"]

\* a piece of a body: its text, and for a placeholder the name and the
\* default literal it carries (NoDefault: none)
Literal(text) == [text |-> text, placeholder |-> FALSE]
PlaceholderPiece(text, name, default) ==
  [text |-> text, placeholder |-> TRUE, name |-> name, default |-> default]

SubstitutionPieces ==
  { Literal(<<"x", " ">>),
    \* an opening without its closing braces is literal text
    Literal(<<"{", "{", "a", "}", " ">>),
    PlaceholderPiece(Placeholder(VarA), VarA, NoDefault),
    PlaceholderPiece(Placeholder(VarB), VarB, NoDefault),
    PlaceholderPiece(Placeholder(<<" ", "a", " ">>), VarA, NoDefault),
    PlaceholderPiece(Placeholder(<<"a", ":", "d">>), VarA, JStr(DefaultD)),
    PlaceholderPiece(Placeholder(<<"b", ":">>), VarB, JStr(<<>>)),
    PlaceholderPiece(Placeholder(NameToString), NameToString, NoDefault) }

\* the most pieces of a body
MaxPieces == 3

SubstitutionBodies == SeqsUpTo(SubstitutionPieces, MaxPieces)

TextOf(pieces) == Concat([i \in 1..Len(pieces) |-> pieces[i].text])

\* bindings of a to falsy values and of b
SubstitutionBindings ==
  {Bindings(a, b) : a \in {Undefined, JStr(<<>>), JNum(0), JBool(FALSE), JStr(<<"v">>)},
                    b \in {Undefined, JStr(<<"w">>)}}

InitSubstitution ==
  /\ fs = VariablesFs
  /\ config = VaultConfig(TRUE)
  /\ pc = "idle"
  /\ call = NoCall
  /\ result = NoResult
  /\ log = <<>>

\* a call of PromptManager.substituteVariables on a body and bindings
SubstituteVariables ==
  /\ pc = "idle"
  /\ \E pieces \in SubstitutionBodies, variables \in SubstitutionBindings :
       /\ call' = [handler |-> "substituteVariables", pieces |-> pieces,
                   content |-> TextOf(pieces), variables |-> variables]
       /\ result' = substituteVariables(TextOf(pieces), variables)
  /\ pc' = "done"
  /\ UNCHANGED <<fs, config, log>>

NextSubstitution == SubstituteVariables \/ Return

SpecSubstitution == InitSubstitution /\ [][NextSubstitution]_vars

----------------------------------------------------------------------------
(* Validation: mergeVariablesWithDefaults, validateVariables and the type  *)
(* check applied to lists of VariableSpec and to bindings                  *)

\* a VariableSpec (types.ts)
VariableSpec(name, type, required, default, options) ==
  [name |-> name, type |-> type, required |-> required, default |-> default,
   options |-> options, description |-> Undefined]

DateText == <<"2", "0", "2", "4", "-", "0", "1", "-", "1", "5">>

\* a default of the declared type
DefaultOf(type) ==
  CASE type = TypeString -> JStr(DefaultD)
    [] type = TypeNumber -> JNum(1)
    [] type = TypeBoolean -> JBool(TRUE)
    [] type = TypeDate -> JStr(DateText)

\* the specs of the lists: a of every type, a with options, b, and a spec
\* whose name is a name of Object.prototype
ValidationSpecPool ==
  UNION {{VariableSpec(VarA, type, required, default, Undefined) :
            required \in BOOLEAN, default \in {Undefined, DefaultOf(type)}} :
         type \in {TypeString, TypeNumber, TypeBoolean, TypeDate}}
  \cup {VariableSpec(VarA, TypeString, TRUE, Undefined, JArr(<<JStr(<<"v">>)>>)),
        VariableSpec(VarA, TypeNumber, FALSE, Undefined, JArr(<<JNum(0)>>))}
  \cup {VariableSpec(VarB, TypeString, required, Undefined, Undefined) :
          required \in BOOLEAN}
  \cup {VariableSpec(NameToString, TypeString, required, default, Undefined) :
          required \in BOOLEAN, default \in {Undefined, JStr(DefaultD)}}

\* the most specs of a list
MaxSpecs == 2

\* no two specs of a list have the same name
UniqueNames(specs) ==
  \A i, j \in 1..Len(specs) : specs[i].name = specs[j].name => i = j

ValidationSpecLists ==
  {specs \in SeqsUpTo(ValidationSpecPool, MaxSpecs) : UniqueNames(specs)}

\* bindings of a, b and toString; Undefined: the name is not bound
Bindings3(a, b, t) ==
  [n \in {VarA : x \in {a} \ {Undefined}} \cup {VarB : x \in {b} \ {Undefined}}
         \cup {NameToString : x \in {t} \ {Undefined}} |->
     IF n = VarA THEN a ELSE IF n = VarB THEN b ELSE t]

ValidationBindings ==
  {Bindings3(a, b, t) :
     a \in {Undefined, Null, JStr(<<>>), JStr(<<"v">>), JNum(1), Infinity, JBool(TRUE)},
     b \in {Undefined, JStr(<<"w">>)},
     t \in {Undefined, JStr(<<"t">>)}}

\* the values the type check is applied to
CheckedValues ==
  {Null, JStr(<<>>), JStr(<<"v">>), JStr(DateText), JNum(0), JNum(1),
   NaN, Infinity, MinusInfinity, JBool(TRUE), JBool(FALSE),
   JArr(<<>>), Inherited(NameToString)}

InitValidation ==
  /\ fs = VariablesFs
  /\ config = VaultConfig(TRUE)
  /\ pc = "idle"
  /\ call = NoCall
  /\ result = NoResult
  /\ log = <<>>

\* a call of PromptManager.mergeVariablesWithDefaults
MergeVariablesWithDefaults ==
  /\ pc = "idle"
  /\ \E specs \in ValidationSpecLists, variables \in ValidationBindings :
       /\ call' = [handler |-> "mergeVariablesWithDefaults",
                   variables |-> variables, specs |-> specs]
       /\ result' = mergeVariablesWithDefaults(variables, specs)
  /\ pc' = "done"
  /\ UNCHANGED <<fs, config, log>>

\* a call of ObsidianUtils.validateVariables
ValidateVariables ==
  /\ pc = "idle"
  /\ \E specs \in ValidationSpecLists, provided \in ValidationBindings :
       /\ call' = [handler |-> "validateVariables",
                   specs |-> specs, provided |-> provided]
       /\ result' = validateVariables(specs, provided)
  /\ pc' = "done"
  /\ UNCHANGED <<fs, config, log>>

\* the type check of one spec on one value
ValidateVariableType ==
  /\ pc = "idle"
  /\ \E spec \in ValidationSpecPool, value \in CheckedValues :
       /\ call' = [handler |-> "validateVariableType", spec |-> spec, value |-> value]
       /\ result' = validateVariableType(spec, value)
  /\ pc' = "done"
  /\ UNCHANGED <<fs, config, log>>

NextValidation ==
  MergeVariablesWithDefaults \/ ValidateVariables \/ ValidateVariableType \/ Return

SpecValidation == InitValidation /\ [][NextValidation]_vars

----------------------------------------------------------------------------
(* Parsing: extractVariableSpecs applied to metadata with declarations of  *)
(* every shape, parseObsidianFile applied to documents with aliases and    *)
(* tags of every shape                                                     *)

DescriptionText == <<"t", "e", "x", "t">>

\* a declaration written as an object
ObjectDeclaration(name, type, required, default, options, description) ==
  JObj([name |-> name, type |-> type, required |-> required, default |-> default,
        options |-> options, description |-> description])

ObjectDeclarations ==
  {ObjectDeclaration(name, type, required, default, Undefined, Undefined) :
     name \in {Undefined, JStr(VarA)},
     type \in {Undefined, JStr(TypeNumber)},
     required \in {Undefined, JBool(FALSE), JBool(TRUE)},
     default \in {Undefined, JStr(DefaultD)}}
  \cup {ObjectDeclaration(JStr(VarB), JStr(TypeString), Undefined, Undefined,
                          JArr(<<JStr(<<"v">>), JStr(<<"w">>)>>), JStr(DescriptionText))}

\* a declaration written as a name; the empty name is one of them
StringDeclarations == {JStr(VarA), JStr(VarB), JStr(<<>>)}

Declarations == StringDeclarations \cup ObjectDeclarations

\* the most declarations of a list
MaxDeclarations == 2

DeclarationLists == {JArr(q) : q \in SeqsUpTo(Declarations, MaxDeclarations)}

\* a name -> spec mapping in the order of its keys
DeclarationMappings ==
  {JMap(<<[k |-> VarA, val |-> d]>>) : d \in Declarations}
  \cup {JMap(<<[k |-> VarB, val |-> d], [k |-> VarA, val |-> e]>>) :
          d \in Declarations, e \in Declarations}

\* values of the field that are no declaration
OtherDeclarations == {Null, JBool(FALSE), JStr(VarA), JNum(1), JBool(TRUE)}

\* metadata with the declaration field under its three names
Frontmatter(promptVars, variables, varsField) ==
  [NoFrontmatter EXCEPT !.promptVars = promptVars, !.variables = variables,
                        !.varsField = varsField]

ParsingFrontmatters ==
  {Frontmatter(promptVars, variables, varsField) :
     promptVars \in {Undefined} \cup DeclarationLists \cup DeclarationMappings
                    \cup OtherDeclarations,
     variables \in {Undefined, JArr(<<JStr(VarB)>>)},
     varsField \in {Undefined, JArr(<<JStr(<<"c">>)>>)}}

\* values of the aliases field
AliasValues ==
  {Undefined, Null, JStr(<<>>), JStr(<<"a">>), JStr(<<"a", " ", "b">>),
   JNum(0), JNum(1), JBool(TRUE), JObj(NoSpecFields),
   JArr(<<>>), JArr(<<JStr(<<"a">>)>>), JArr(<<JStr(<<"a">>), JNum(1), JStr(<<"b">>)>>),
   JArr(<<Null, JStr(<<>>)>>)}

\* values of the tags field
TagValues ==
  {Undefined, Null, JStr(<<>>), JStr(<<"a">>), JStr(<<"a", ",", " ", "b">>),
   JStr(<<" ", "a", " ", "b", ",">>), JStr(<<",", " ">>), JStr(<<"a", "\n", "b">>),
   JNum(1), JBool(TRUE), JObj(NoSpecFields),
   JArr(<<>>), JArr(<<JStr(<<"a">>), JStr(<<"b", " ", "c">>)>>),
   JArr(<<JNum(1), JStr(<<>>), JBool(FALSE)>>)}

\* documents with metadata, and the document whose metadata is malformed
ParsingDocuments ==
  {[bad |-> FALSE,
    fm |-> [NoFrontmatter EXCEPT !.aliases = aliases, !.tags = tags],
    body |-> body] :
     aliases \in AliasValues, tags \in TagValues,
     body \in {<<"x">>, <<"\n", "x", " ", "y", "\n">>}}
  \cup {Malformed}

InitParsing ==
  /\ fs = VariablesFs
  /\ config = VaultConfig(TRUE)
  /\ pc = "idle"
  /\ call = NoCall
  /\ result = NoResult
  /\ log = <<>>

\* a call of ObsidianUtils.extractVariableSpecs
ExtractVariableSpecs ==
  /\ pc = "idle"
  /\ \E frontmatter \in ParsingFrontmatters :
       /\ call' = [handler |-> "extractVariableSpecs", frontmatter |-> frontmatter]
       /\ result' = extractVariableSpecs(frontmatter)
  /\ pc' = "done"
  /\ UNCHANGED <<fs, config, log>>

\* a call of ObsidianUtils.parseObsidianFile
ParseObsidianFile ==
  /\ pc = "idle"
  /\ \E doc \in ParsingDocuments :
       /\ call' = [handler |-> "parseObsidianFile", doc |-> doc]
       /\ result' = parseObsidianFile(doc)
  /\ pc' = "done"
  /\ UNCHANGED <<fs, config, log>>

NextParsing == ExtractVariableSpecs \/ ParseObsidianFile \/ Return

SpecParsing == InitParsing /\ [][NextParsing]_vars

----------------------------------------------------------------------------
(* Properties of discovery and of the result of a call                     *)

\* the base directories the last call searched, as the caller or the
\* configuration names them
SearchedPaths == SearchPathsOf(config, call.options.searchPaths)

\* what the four stages find for the last call's name in one base directory
StagesOf(basePath) ==
  <<findExactMatch(fs, config, basePath, call.promptName),
    findByAlias(fs, config, basePath, call.promptName),
    findFuzzyMatch(fs, config, basePath, call.promptName),
    findByContent(fs, config, basePath, call.promptName)>>

\* some stage finds a file in the base directory
AnyStageFinds(stages) == \E k \in 1..4 : stages[k].found

\* the stage k of stages found path and no earlier stage found anything
FirstFinding(stages, k, path) ==
  /\ stages[k].found
  /\ stages[k].path = path
  /\ \A j \in 1..(k - 1) : ~stages[j].found

\* the last call was a discovery of the four-stage handler that has returned
SimplifiedDone == pc = "done" /\ call.handler = "getPromptedSimplified"

\* an access of the last call that lies outside every allowed directory
OutsideAccess(i) == ~InsideAllowed(log[i].path, config.allowedDirectories)

\* C1: every path a call stats, lists, reads or writes lies inside one of
\* the allowed directories
C1_AccessesInsideAllowed ==
  \A i \in 1..Len(log) : ~OutsideAccess(i)

\* C1: a call with a search path leading out of the vault has listed or read
\* a directory outside the allowed directories
C1_OutsideListed ==
  /\ SimplifiedDone
  /\ \E i \in 1..Len(log) : OutsideAccess(i) /\ log[i].op \in {"list", "read"}

\* C2: the file a discovery returns is the result of a stage (exact, alias,
\* fuzzy, content, in that order) of one base directory in which every
\* earlier stage found nothing; so an exact match wins over any other match
\* of its directory
C2_StageOrder ==
  (SimplifiedDone /\ result.resolved) =>
    \E i \in 1..Len(SearchedPaths), k \in 1..4 :
      FirstFinding(StagesOf(SearchedPaths[i]), k, result.chosen.path)

\* the fuzzy score of a directory entry for the last call's name
EntryScore(entry) ==
  calculateFuzzyScore(ToLowerCase(call.promptName), ToLowerCase(entry.name))

\* some file beside the chosen one scores strictly higher than it
OutscoredBy(entries, chosen) ==
  \E i, j \in 1..Len(entries) :
    /\ entries[j].name = chosen
    /\ ScoreGT(EntryScore(entries[i]), EntryScore(entries[j]))
    /\ ScoreGT(EntryScore(entries[i]), FuzzyThreshold)

\* C2: an exact match was returned although another file of the same
\* directory has a strictly higher fuzzy score
C2_ExactBeatsHigherFuzzy ==
  /\ SimplifiedDone
  /\ result.resolved
  /\ \E i \in 1..Len(SearchedPaths) :
       FirstFinding(StagesOf(SearchedPaths[i]), 1, result.chosen.path)
  /\ OutscoredBy(fs[Parent(result.chosen.path)].entries,
                 Basename(result.chosen.path))

\* the base directory of index i is the first in which a stage finds a file
FirstMatchingDirectory(i) ==
  /\ AnyStageFinds(StagesOf(SearchedPaths[i]))
  /\ \A j \in 1..(i - 1) : ~AnyStageFinds(StagesOf(SearchedPaths[j]))

\* the access lies in one of the first i base directories
WithinFirst(i, access) ==
  \E j \in 1..i :
    IsPrefix(resolveVaultPath(SearchedPaths[j], config.allowedDirectories),
             access.path)

\* C3: the base directories are tried in the order given; the first in
\* which a stage finds a file ends the search: the file returned is in it,
\* and no later directory is listed or read
C3_DirectoryOrder ==
  SimplifiedDone =>
    \A i \in 1..Len(SearchedPaths) :
      FirstMatchingDirectory(i) =>
        /\ \A a \in 1..Len(log) : WithinFirst(i, log[a])
        /\ result.resolved =>
             \E k \in 1..4 :
               FirstFinding(StagesOf(SearchedPaths[i]), k, result.chosen.path)

\* C3: a match that is not exact was returned from an earlier directory
\* although a later directory holds an exact match
C3_EarlierDirectoryWins ==
  /\ SimplifiedDone
  /\ result.resolved
  /\ \E i, j \in 1..Len(SearchedPaths) :
       /\ i < j
       /\ FirstMatchingDirectory(i)
       /\ ~StagesOf(SearchedPaths[i])[1].found
       /\ StagesOf(SearchedPaths[j])[1].found
       /\ IsPrefix(resolveVaultPath(SearchedPaths[i], config.allowedDirectories),
                   result.chosen.path)

\* C4: a call always returns a result object; a failed one has
\* resolved = false, empty content, no variables used, hasError = true and
\* a populated error
C4_NeverThrows ==
  pc = "done" =>
    /\ "resolved" \in DOMAIN result
    /\ ~result.resolved =>
         /\ result.content = <<>>
         /\ result.variablesUsed = <<>>
         /\ result.hasError
         /\ result.error.code # "none"
         /\ result.error.message # "none"

\* C4: a call whose prompt file could not be loaded has returned a failed
\* result
C4_LoadFailureReturned ==
  /\ pc = "done"
  /\ call.handler = "getPrompted"
  /\ ~result.resolved
  /\ result.error.message = "Failed to load prompt file"

\* no stage of the handler of the last call finds the name in any of the
\* base directories
NothingFound ==
  IF call.handler = "getPrompted"
  THEN ~discoverPromptPhase1(fs, config, call.promptName,
                             call.options.searchPaths).found
  ELSE \A i \in 1..Len(SearchedPaths) : ~AnyStageFinds(StagesOf(SearchedPaths[i]))

\* C5: when no stage finds the name in any directory the call fails with
\* the error of kind 'prompt_not_found'
C5_NotFoundKind ==
  (pc = "done" /\ NothingFound) =>
    /\ ~result.resolved
    /\ result.error.code = "prompt_not_found"

\* C5: a call for a name nothing matches has failed with another kind
C5_NotFoundUnknown ==
  /\ pc = "done"
  /\ NothingFound
  /\ ~result.resolved
  /\ result.error.code = "unknown_error"
  /\ result.error.message = "Prompt not found"

----------------------------------------------------------------------------
(* Properties of variable validation and substitution                      *)

\* the prompt file the last call's name resolves to, as loadPromptFile
\* gives it
CalledPrompt ==
  loadPromptFile(fs, discoverPromptPhase1(fs, config, call.promptName,
                                          call.options.searchPaths).path)

\* the variables the prompt file of the last call declares
DeclaredSpecs == extractVariableSpecs(CalledPrompt.frontmatter)

\* the last call was one of getPrompted (prompts.ts) that has returned
PromptedDone == pc = "done" /\ call.handler = "getPrompted"

StrictDone == PromptedDone /\ call.options.strictVariables

\* the call failed with the error of the strict validation
StrictFailure ==
  /\ ~result.resolved
  /\ result.error.code = "missing_required_variables"

\* the value validation sees for a declared variable: the caller's when the
\* caller's bindings hold the name, the declared default otherwise
MergedValue(spec) ==
  IF Has(call.variables, spec.name) THEN Get(call.variables, spec.name)
  ELSE spec.default

\* the required variables whose merged value is absent, null or ''
UnfilledNames ==
  NamesOf(SelectSeq(DeclaredSpecs,
                    LAMBDA spec : /\ spec.required
                                  /\ MergedValue(spec) \in {Undefined, Null, JStr(<<>>)}))

\* a required variable the caller's bindings do not hold and that declares
\* no default
Unsupplied(spec) ==
  /\ spec.required
  /\ ~Has(call.variables, spec.name)
  /\ spec.default = Undefined

UnsuppliedNames == NamesOf(SelectSeq(DeclaredSpecs, Unsupplied))

NoCallerBinding(spec) ==
  Get(call.variables, spec.name) \in {Undefined, Null, JStr(<<>>)}

\* the required variables with neither a caller binding nor a declared
\* default
NeitherNames ==
  NamesOf(SelectSeq(DeclaredSpecs,
                    LAMBDA spec : /\ spec.required
                                  /\ NoCallerBinding(spec)
                                  /\ spec.default = Undefined))

CalledValidation ==
  validateVariables(DeclaredSpecs,
                    mergeVariablesWithDefaults(call.variables, DeclaredSpecs))

\* a value of the wrong type or outside the options, and nothing missing
TypeMismatchOnly ==
  /\ CalledValidation.missing = <<>>
  /\ CalledValidation.errors # <<>>

\* C7: a value that fails its declared type or options makes a strict call
\* fail with the error of kind 'invalid_variable_type'; a call that is not
\* strict goes on
C7_TypeMismatchKind ==
  (PromptedDone /\ TypeMismatchOnly) =>
    IF call.options.strictVariables
    THEN ~result.resolved /\ result.error.code = "invalid_variable_type"
    ELSE result.resolved

\* C7: a strict call with a type mismatch and nothing missing has failed as
\* 'missing_required_variables' with an empty list of names
C7_TypeMismatchAsMissing ==
  /\ StrictDone
  /\ TypeMismatchOnly
  /\ StrictFailure
  /\ result.error.missing = <<>>
  /\ result.error.errors # <<>>

\* a declared variable the call leaves unsupplied whose placeholder is in
\* the body of the prompt
UnsuppliedPlaceholder(spec) ==
  /\ Unsupplied(spec)
  /\ Includes(CalledPrompt.content, Placeholder(spec.name))

\* C8: a call that is not strict and leaves a required variable without
\* default unbound succeeds: the placeholder stays in the content and
\* missingVariables names the variable
C8_NonStrictMissing ==
  (pc = "done" /\ ~call.options.strictVariables) =>
    \A i \in 1..Len(DeclaredSpecs) :
      UnsuppliedPlaceholder(DeclaredSpecs[i]) =>
        /\ result.resolved
        /\ ~result.hasError
        /\ Includes(result.content, Placeholder(DeclaredSpecs[i].name))
        /\ NamesOf(result.missingVariables) = UnsuppliedNames

\* C8: the four-stage handler has returned the text that asks for the
\* variables in place of the body
C8_HelpTextReturned ==
  /\ SimplifiedDone
  /\ ~call.options.strictVariables
  /\ \E i \in 1..Len(DeclaredSpecs) : UnsuppliedPlaceholder(DeclaredSpecs[i])
  /\ result.resolved
  /\ StartsWith(result.content, MissingHeading)
  /\ ~Includes(result.content, Placeholder(VarA))

\* the caller binds the name to a value that holds no placeholder
BoundPlainly(name) ==
  /\ Has(call.variables, name)
  /\ call.variables[name] \in {JStr(<<"x">>), JNum(1)}

\* C9: a placeholder {{n}} with n bound to v puts v in the content and
\* records variablesUsed[n] = v; {{n:d}} with n unbound puts d in the
\* content and records variablesUsed[n] = d
C9_VariablesUsed ==
  (PromptedDone /\ result.resolved) =>
    /\ (BoundPlainly(VarA) /\ Includes(CalledPrompt.content, Placeholder(VarA))) =>
         /\ Includes(result.content, ToStr(call.variables[VarA]))
         /\ Has(result.variablesUsed, VarA)
         /\ Get(result.variablesUsed, VarA) = call.variables[VarA]
    /\ Includes(CalledPrompt.content, Placeholder(VarG \o <<":", "h", "i">>)) =>
         /\ Includes(result.content, <<"h", "i">>)
         /\ Has(result.variablesUsed, VarG)
         /\ Get(result.variablesUsed, VarG) = JStr(<<"h", "i">>)

\* C9: a call has put the value of a bound variable in the content and
\* recorded no variable as used
C9_UsedEmpty ==
  /\ PromptedDone
  /\ result.resolved
  /\ call.promptName = NameS1
  /\ Get(call.variables, VarA) = JStr(<<"x">>)
  /\ result.content = <<"x", " ", "x">>
  /\ result.variablesUsed = <<>>

\* C10: a placeholder inside a substituted value or default is not expanded:
\* with a bound to '{{b}}' the content of a body holding {{a}} holds {{b}}
C10_NotRecursive ==
  (PromptedDone /\ result.resolved) =>
    /\ (/\ Get(call.variables, VarA) = JStr(PlaceholderB)
        /\ Includes(CalledPrompt.content, Placeholder(VarA))) =>
         Includes(result.content, PlaceholderB)
    /\ Includes(CalledPrompt.content, Placeholder(VarG \o <<":">> \o PlaceholderB)) =>
         Includes(result.content, PlaceholderB)

\* C10: a value '{{b}}' put in for {{a}} was itself replaced by the value
\* of b
C10_SecondPass ==
  /\ PromptedDone
  /\ result.resolved
  /\ call.promptName = NameS2
  /\ Get(call.variables, VarA) = JStr(PlaceholderB)
  /\ Get(call.variables, VarB) = JStr(<<"y">>)
  /\ result.content = <<"h", "i", " ", "y">>

----------------------------------------------------------------------------
(* Properties of substituteVariables                                       *)

\* a call of substituteVariables has returned
SubstitutionDone == pc = "done" /\ call.handler = "substituteVariables"

\* the name of the placeholder is a key of the bindings of the call
BoundPiece(piece) == piece.placeholder /\ HasOwn(call.variables, piece.name)

\* the placeholder is not bound and carries a default literal
DefaultedPiece(piece) ==
  piece.placeholder /\ ~HasOwn(call.variables, piece.name) /\ piece.default # NoDefault

\* the placeholder is neither bound nor carries a default literal
UnresolvedPiece(piece) ==
  piece.placeholder /\ ~HasOwn(call.variables, piece.name) /\ piece.default = NoDefault

\* what the three rules put in the place of a piece of the body
ResolvedText(piece) ==
  IF BoundPiece(piece) THEN ToStr(call.variables[piece.name])
  ELSE IF DefaultedPiece(piece) THEN piece.default.v
  ELSE piece.text

\* C11: each placeholder is resolved by the first rule that applies: its
\* name is a key of the bindings (the string form of the value, recorded as
\* used), it carries a default literal (the literal, recorded as used), or
\* it is left as it is and its name is recorded as missing; a name is
\* recorded as used or as missing only for a placeholder of that kind
C11_ThreeRules ==
  SubstitutionDone =>
    /\ result.content =
         Concat([i \in 1..Len(call.pieces) |-> ResolvedText(call.pieces[i])])
    /\ \A i \in 1..Len(call.pieces) :
         LET piece == call.pieces[i]
         IN  /\ BoundPiece(piece) =>
                  /\ HasOwn(result.usedVariables, piece.name)
                  /\ result.usedVariables[piece.name] = call.variables[piece.name]
             /\ DefaultedPiece(piece) =>
                  /\ HasOwn(result.usedVariables, piece.name)
                  /\ result.usedVariables[piece.name] = piece.default
             /\ UnresolvedPiece(piece) =>
                  \E k \in 1..Len(result.missingVariables) :
                    result.missingVariables[k] = piece.name
    /\ \A n \in DOMAIN result.usedVariables :
         \E i \in 1..Len(call.pieces) :
           /\ call.pieces[i].placeholder
           /\ call.pieces[i].name = n
           /\ ~UnresolvedPiece(call.pieces[i])
    /\ \A k \in 1..Len(result.missingVariables) :
         \E i \in 1..Len(call.pieces) :
           /\ UnresolvedPiece(call.pieces[i])
           /\ call.pieces[i].name = result.missingVariables[k]

\* C11: a placeholder whose name is no key of the bindings and that carries
\* no default was replaced by the text of a function every object inherits
C11_InheritedSubstituted ==
  /\ SubstitutionDone
  /\ call.pieces = <<PlaceholderPiece(Placeholder(NameToString), NameToString, NoDefault)>>
  /\ call.variables = NoVariables
  /\ result.content = ToStr(JFn(NameToString))
  /\ result.missingVariables = <<>>
  /\ HasOwn(result.usedVariables, NameToString)

\* the index of the first unresolved placeholder of the name in the body
FirstUnresolved(name) ==
  CHOOSE i \in 1..Len(call.pieces) :
    /\ UnresolvedPiece(call.pieces[i])
    /\ call.pieces[i].name = name
    /\ \A j \in 1..(i - 1) :
         ~(UnresolvedPiece(call.pieces[j]) /\ call.pieces[j].name = name)

\* C12: the missing list holds the name of every unresolved placeholder,
\* each once, in the order of the first occurrences in the body
C12_MissingOnceInOrder ==
  SubstitutionDone =>
    /\ {result.missingVariables[k] : k \in 1..Len(result.missingVariables)} =
         {call.pieces[i].name :
            i \in {j \in 1..Len(call.pieces) : UnresolvedPiece(call.pieces[j])}}
    /\ \A k, l \in 1..Len(result.missingVariables) :
         k < l =>
           /\ result.missingVariables[k] # result.missingVariables[l]
           /\ FirstUnresolved(result.missingVariables[k])
                < FirstUnresolved(result.missingVariables[l])

\* C12: an unresolved placeholder of an inherited name stands before one
\* that is listed, and is not listed itself
C12_InheritedNotListed ==
  /\ SubstitutionDone
  /\ Len(call.pieces) = 3
  /\ call.pieces[1].placeholder /\ call.pieces[1].name = NameToString
  /\ UnresolvedPiece(call.pieces[2]) /\ call.pieces[2].name = VarA
  /\ UnresolvedPiece(call.pieces[3]) /\ call.pieces[3].name = VarA
  /\ result.missingVariables = <<VarA>>


----------------------------------------------------------------------------
(* Properties of the default merge and of validation                       *)

MergeDone == pc = "done" /\ call.handler = "mergeVariablesWithDefaults"

\* the specs of the call that declare a default for a name the caller did
\* not supply
Defaulted(c) ==
  {i \in 1..Len(c.specs) :
     c.specs[i].default # Undefined /\ ~HasOwn(c.variables, c.specs[i].name)}

\* C13: mergeVariablesWithDefaults returns bindings in which every name of
\* the caller keeps the caller's value, every spec with a declared default
\* whose name the caller did not supply is bound to that default, and no
\* other name is bound.
C13_MergeDefaults ==
  MergeDone =>
    /\ \A n \in DOMAIN call.variables : HasOwn(result, n) /\ result[n] = call.variables[n]
    /\ \A i \in Defaulted(call) :
         /\ HasOwn(result, call.specs[i].name)
         /\ result[call.specs[i].name] = call.specs[i].default
    /\ DOMAIN result =
         DOMAIN call.variables \cup {call.specs[i].name : i \in Defaulted(call)}

\* C13, the case that fails: a spec named toString declares a default, the
\* caller binds no toString, and the merged bindings bind none either
C13_InheritedDefaultDropped ==
  /\ MergeDone
  /\ \E i \in Defaulted(call) : call.specs[i].name = NameToString
  /\ ~HasOwn(result, NameToString)


ValidateDone == pc = "done" /\ call.handler = "validateVariables"

\* the value the bindings bind to a name; Undefined: none
BoundValue(provided, name) ==
  IF HasOwn(provided, name) THEN provided[name] ELSE Undefined

\* absent, null or the empty string
NoValue(value) == value \in {Undefined, Null, JStr(<<>>)}

ListedMissing(r, spec) == \E k \in 1..Len(r.missing) : r.missing[k] = spec
ListedError(r, spec) == \E k \in 1..Len(r.errors) : r.errors[k].name = spec.name

\* C14: validateVariables puts a spec in the missing list exactly when it is
\* required and its bound value is absent, null or the empty string, and
\* then reports no type error for it; a spec that is not required and has
\* no bound value is in neither list.
C14_MissingExactly ==
  ValidateDone =>
    \A i \in 1..Len(call.specs) :
      LET spec == call.specs[i]
          value == BoundValue(call.provided, spec.name)
      IN  /\ ListedMissing(result, spec) <=> (spec.required /\ NoValue(value))
          /\ ListedMissing(result, spec) => ~ListedError(result, spec)
          /\ (~spec.required /\ value = Undefined) =>
               ~ListedMissing(result, spec) /\ ~ListedError(result, spec)

\* C14, the case that fails: a required spec named toString has no bound
\* value and is reported with a type error instead of as missing
C14_InheritedNotMissing ==
  /\ ValidateDone
  /\ \E i \in 1..Len(call.specs) :
       /\ call.specs[i].name = NameToString
       /\ call.specs[i].required
       /\ ~HasOwn(call.provided, NameToString)
       /\ ~ListedMissing(result, call.specs[i])
       /\ ListedError(result, call.specs[i])

\* a spec that is missing, or whose bound value the type check rejects
Failing(spec, provided) ==
  LET value == BoundValue(provided, spec.name)
  IN  \/ spec.required /\ NoValue(value)
      \/ value # Undefined /\ validateVariableType(spec, value) # "none"

\* C15: validateVariables does not stop at the first failure: every spec of
\* the list that is missing or whose bound value is invalid is reported in
\* the missing list or in the error list, and isValid is true exactly when
\* both lists are empty.
C15_Aggregated ==
  ValidateDone =>
    /\ \A i \in 1..Len(call.specs) :
         Failing(call.specs[i], call.provided) =>
           ListedMissing(result, call.specs[i]) \/ ListedError(result, call.specs[i])
    /\ result.isValid <=> (result.missing = <<>> /\ result.errors = <<>>)

\* C15, its case: a missing spec followed by a spec with an invalid value,
\* both reported by the one call
C15_BothReported ==
  /\ ValidateDone
  /\ \E i, j \in 1..Len(call.specs) :
       /\ i < j
       /\ call.specs[i].required /\ NoValue(BoundValue(call.provided, call.specs[i].name))
       /\ ListedMissing(result, call.specs[i])
       /\ BoundValue(call.provided, call.specs[j].name) # Undefined
       /\ ListedError(result, call.specs[j])
  /\ ~result.isValid

TypeCheckDone == pc = "done" /\ call.handler = "validateVariableType"

\* the values of the model that make a valid date: date text, a finite
\* number of milliseconds, and what converts to one (null, a boolean)
IsDateValue(value) ==
  \/ value.t = "str" /\ value.v = DateText
  \/ value.t \in {"num", "null", "bool"}

\* C16: the type check accepts a value for type 'number' only if it is a
\* finite number, for 'string' only a string, for 'boolean' only a boolean,
\* for 'date' only a value that makes a valid date.
C16_TypeRules ==
  (TypeCheckDone /\ result = "none") =>
    CASE call.spec.type = TypeNumber -> call.value.t = "num"
      [] call.spec.type = TypeString -> call.value.t = "str"
      [] call.spec.type = TypeBoolean -> call.value.t = "bool"
      [] call.spec.type = TypeDate -> IsDateValue(call.value)

\* C16, the case that fails: an infinite value is accepted as a number
C16_InfinityAccepted ==
  /\ TypeCheckDone
  /\ call.spec.type = TypeNumber
  /\ call.value.t = "inf"
  /\ result = "none"


----------------------------------------------------------------------------
(* Properties of parsing and of the normalisation of metadata              *)

\* the file the exact stage finds for the last call of getPrompted
ExactlyFound ==
  discoverPromptPhase1(fs, config, call.promptName, call.options.searchPaths)

\* the last call of getPrompted found a file it could read
LoadedReadable(found) ==
  /\ pc = "done"
  /\ call.handler = "getPrompted"
  /\ found.found
  /\ readFile(fs, found.path).ok

LoadFailed ==
  ~result.resolved /\ result.error.message = "Failed to load prompt file"

\* C19: parsing never fails on document text: getPrompted that finds a
\* readable document returns no error from loading it, whether the document
\* has no metadata, well-formed metadata or a malformed metadata block.
C19_ParsingNeverFails ==
  LoadedReadable(ExactlyFound) => ~LoadFailed

\* C19, the case that fails: the document found has a malformed metadata
\* block, and the call returns the error of loadPromptFile
C19_MalformedFailsLoad ==
  /\ LoadedReadable(ExactlyFound)
  /\ readFile(fs, ExactlyFound.path).doc.bad
  /\ LoadFailed


ExtractDone == pc = "done" /\ call.handler = "extractVariableSpecs"

\* the spec of a declaration written as a name
NamedSpec(name) == VariableSpec(name, TypeString, TRUE, Undefined, Undefined)

\* the spec of a declaration written as an object, under a name
ObjectSpec(o, name) ==
  [name |-> name,
   type |-> IF o.type = Undefined THEN TypeString ELSE o.type.v,
   required |-> o.required # JBool(FALSE),
   default |-> o.default, options |-> o.options, description |-> o.description]

\* the spec of one declaration; key: the key of a mapping, Undefined in a list
SpecOfDeclaration(d, key) ==
  IF d.t = "str"
  THEN NamedSpec(IF key = Undefined THEN d.v ELSE key.v)
  ELSE ObjectSpec(d.v, IF key # Undefined THEN key.v
                       ELSE IF d.v.name = Undefined THEN NameUnknown
                       ELSE d.v.name.v)

\* the ordered spec list of the value of the declaration field
SpecsOfField(field) ==
  IF field.t = "arr"
  THEN [i \in 1..Len(field.v) |-> SpecOfDeclaration(field.v[i], Undefined)]
  ELSE IF field.t = "map"
  THEN [i \in 1..Len(field.v) |-> SpecOfDeclaration(field.v[i].val, JStr(field.v[i].k))]
  ELSE <<>>

\* the three names of the field in the order of the lookup
FieldsOf(frontmatter) ==
  <<frontmatter.promptVars, frontmatter.variables, frontmatter.varsField>>

\* the first of the values that is in Wanted; Undefined: none is
FirstIn(values, Wanted(_)) ==
  IF \E i \in 1..Len(values) : Wanted(values[i])
  THEN values[CHOOSE i \in 1..Len(values) :
                /\ Wanted(values[i])
                /\ \A j \in 1..(i - 1) : ~Wanted(values[j])]
  ELSE Undefined

\* the field is in the metadata
Present(value) == value # Undefined

\* the field is in the metadata with a value other than null, false, 0,
\* NaN and the empty string
Usable(value) ==
  /\ value.t \notin {"undefined", "null", "nan"}
  /\ value.t = "bool" => value.v
  /\ value.t = "num" => value.v # 0
  /\ value.t = "str" => value.v # <<>>

\* C17 as stated: the spec list is the normal form of the first of
\* 'prompt-vars', 'variables', 'vars' that the metadata holds: per string a
\* spec of type string, required, without default; per object type string
\* when absent, required unless false, default, options and description
\* copied; per mapping entry the same with the key as name; the empty list
\* for any other shape or when no field is there.
C17_FirstFound ==
  ExtractDone => result = SpecsOfField(FirstIn(FieldsOf(call.frontmatter), Present))

\* C17, amended: the spec list is the normal form of the first of
\* 'prompt-vars', 'variables', 'vars' whose value is not null, false, 0 or
\* the empty string; a field with such a value is passed over.
C17_FirstUsable ==
  ExtractDone => result = SpecsOfField(FirstIn(FieldsOf(call.frontmatter), Usable))

\* C17, its case: 'prompt-vars' is there with a value that is passed over,
\* and the declarations of 'variables' are the result
C17_LaterFieldUsed ==
  /\ ExtractDone
  /\ Present(call.frontmatter.promptVars)
  /\ ~Usable(call.frontmatter.promptVars)
  /\ call.frontmatter.variables.t = "arr"
  /\ result = SpecsOfField(call.frontmatter.variables)
  /\ result # <<>>

\* C18: every spec of the list extractVariableSpecs returns has a non-empty
\* name, and no two specs of the list have the same name.
C18_NamesUnique ==
  ExtractDone =>
    /\ \A i \in 1..Len(result) : result[i].name # <<>>
    /\ UniqueNames(result)

\* C18, the case that fails: a list that declares a name twice gives two
\* specs of that name
C18_DuplicateName ==
  /\ ExtractDone
  /\ \E i, j \in 1..Len(result) : i < j /\ result[i].name = result[j].name

\* parseObsidianFile has returned the metadata of a document
ParseDone == pc = "done" /\ call.handler = "parseObsidianFile" /\ ~result.threw

\* the string elements of a list value, in order
StringsOf(list) ==
  LET IsString(a) == a.t = "str"
      kept == SelectSeq(list, IsString)
  IN  [i \in 1..Len(kept) |-> kept[i].v]

\* a list of strings as a value of a field
ListValue(strings) == JArr([i \in 1..Len(strings) |-> JStr(strings[i])])

TagSeparators == {",", " ", "\n"}

\* tokens are the maximal runs of s without a separator, in order
IsTokens(s, tokens) ==
  LET NoSeparator(c) == c \notin TagSeparators
      starts == {i \in 1..Len(s) :
                   NoSeparator(s[i]) /\ (i = 1 \/ ~NoSeparator(s[i - 1]))}
  IN  /\ \A i \in 1..Len(tokens) :
           tokens[i] # <<>> /\ \A k \in 1..Len(tokens[i]) : NoSeparator(tokens[i][k])
      /\ Concat(tokens) = SelectSeq(s, NoSeparator)
      /\ Len(tokens) = Cardinality(starts)

\* the aliases and tags of lists, of absent fields and of other values
ListsNormalised(fm, r) ==
  /\ fm.aliases.t = "arr" => r.aliases = StringsOf(fm.aliases.v)
  /\ fm.aliases.t \notin {"arr", "str"} => r.aliases = <<>>
  /\ fm.tags.t = "arr" => r.tags = StringsOf(fm.tags.v)
  /\ fm.tags.t \notin {"arr", "str"} => r.tags = <<>>
  /\ fm.tags.t = "str" => IsTokens(fm.tags.v, r.tags)

\* normalising the lists again gives the same lists
Idempotent(r) ==
  /\ normalizeAliases(ListValue(r.aliases)) = r.aliases
  /\ normalizeTags(ListValue(r.tags)) = r.tags

----------------------------------------------------------------------------
(* Properties of the stages of discovery                                   *)

\* every variation of the name the exact stage tries lies, in every base
\* directory searched, outside the allowed directories
NameEscapes(paths) ==
  \A i \in 1..Len(paths) :
    \A k \in 1..Len(ExactVariations(call.promptName)) :
      ~validateVaultPath(ExactVariations(call.promptName)[k],
                         resolveVaultPath(paths[i], config.allowedDirectories),
                         config.allowedDirectories).ok

\* C21: a prompt name that resolves to a path outside the allowed
\* directories makes the call fail with the error of the security layer,
\* 'path_outside_allowed_directories'.
C21_AccessDenied ==
  (pc = "done" /\ NameEscapes(SearchedPaths)) =>
    /\ ~result.resolved
    /\ result.error.code = "path_outside_allowed_directories"

\* C21, the case that fails: the name with '..' segments ends in the
\* plain error of a prompt that was not found
C21_EscapeNotFound ==
  /\ pc = "done"
  /\ call.promptName = NameEscaping
  /\ NameEscapes(SearchedPaths)
  /\ ~result.resolved
  /\ result.error.code = "unknown_error"
  /\ result.error.message = "Prompt not found"


\* the directory a base path names
DirectoryOf(basePath) == resolveVaultPath(basePath, config.allowedDirectories)

\* the directory can be listed
Listable(dir) == IsDir(fs, dir) /\ ~fs[dir].err

\* the base directory lies in the vault, can be accessed and holds a file of
\* an allowed type named as one of the variations of the name
ExactFileIn(basePath) ==
  /\ InsideAllowed(DirectoryOf(basePath), config.allowedDirectories)
  /\ Listable(DirectoryOf(basePath))
  /\ \E i \in 1..Len(fs[DirectoryOf(basePath)].entries) :
       LET e == fs[DirectoryOf(basePath)].entries[i]
       IN  /\ e.kind = "file"
           /\ isAllowedFileType(e.name)
           /\ \E k \in 1..Len(ExactVariations(call.promptName)) :
                 e.name = ExactVariations(call.promptName)[k]

\* the entry is a readable file of an allowed type whose metadata declares
\* the name as an alias, ignoring letter case
DeclaresAlias(e) ==
  /\ e.kind = "file"
  /\ isAllowedFileType(e.name)
  /\ e.readable
  /\ ~e.doc.bad
  /\ \/ e.doc.fm.aliases.t = "str"
        /\ ToLowerCase(e.doc.fm.aliases.v) = ToLowerCase(call.promptName)
     \/ e.doc.fm.aliases.t = "arr"
        /\ \E k \in 1..Len(e.doc.fm.aliases.v) :
              /\ e.doc.fm.aliases.v[k].t = "str"
              /\ ToLowerCase(e.doc.fm.aliases.v[k].v) = ToLowerCase(call.promptName)

\* the base directory can be listed and holds a file that declares the alias
AliasFileIn(basePath) ==
  /\ Listable(DirectoryOf(basePath))
  /\ \E i \in 1..Len(fs[DirectoryOf(basePath)].entries) :
       DeclaresAlias(fs[DirectoryOf(basePath)].entries[i])

\* the call ended with the error of a prompt that was not found
EndedNotFound == ~result.resolved /\ result.error.message = "Prompt not found"

\* C22: an I/O error in one stage, on one file or in one directory does not
\* abort discovery: when some directory searched holds an exact match, or
\* (for the four-stage discovery) a file declaring the alias, the call does
\* not end in not-found, whatever errors the other files and directories
\* give.
C22_ErrorsSkipped ==
  /\ (pc = "done" /\ call.handler = "getPrompted"
        /\ \E i \in 1..Len(SearchedPaths) : ExactFileIn(SearchedPaths[i]))
       => ~EndedNotFound
  /\ (SimplifiedDone
        /\ \E i \in 1..Len(SearchedPaths) :
              ExactFileIn(SearchedPaths[i]) \/ AliasFileIn(SearchedPaths[i]))
       => ~EndedNotFound

\* C22, its case: the first directory cannot be listed, the second holds an
\* unreadable file before the file that declares the alias, and that file
\* is returned
C22_LaterMatchReturned ==
  /\ SimplifiedDone
  /\ Len(SearchedPaths) = 2
  /\ readdir(fs, DirectoryOf(SearchedPaths[1])).code = "EACCES"
  /\ ~readFile(fs, Append(DirectoryOf(SearchedPaths[2]), FileK)).ok
  /\ result.resolved
  /\ result.chosen.path = Append(DirectoryOf(SearchedPaths[2]), FileM)


\* the file name ends with one of the allowed extensions
EndsWithAllowed(filename) ==
  \E ext \in AllowedExtensions :
     /\ Len(filename) >= Len(ext)
     /\ SubSeq(ToLowerCase(filename), Len(filename) - Len(ext) + 1, Len(filename)) = ext

\* C23: every path a discovery returns names a regular file whose name ends
\* with one of the allowed extensions .md, .txt, .json.
C23_AllowedExtension ==
  (pc = "done" /\ result.resolved) =>
    /\ IsFile(fs, result.chosen.path)
    /\ EndsWithAllowed(Basename(result.chosen.path))

\* C23, the case that fails: the file returned is named md, without
\* extension
C23_ExtensionlessReturned ==
  /\ SimplifiedDone
  /\ result.resolved
  /\ IsFile(fs, result.chosen.path)
  /\ Basename(result.chosen.path) = FileMd

----------------------------------------------------------------------------
(* Stages: each stage of discovery, and each of its scores, applied on    *)
(* its own to a name and a directory or a file                             *)

NameP == <<"p">>
NameUpperP == <<"P">>
NamePxy == <<"p", "x", "y">>

ExtJson == <<".", "j", "s", "o", "n">>
FilePTxt == <<"p", ".", "t", "x", "t">>
FilePJson == <<"p", ".", "j", "s", "o", "n">>
FilePx == <<"p", "x", ".", "m", "d">>
FilePxyLong == <<"p", "x", "y", "a", "b", "c", "d", "e", ".", "m", "d">>
FileUpperPMd == <<"P", ".", "m", "d">>

\* a file titled n whose body mentions n once
Titled == [bad |-> FALSE,
           fm |-> [NoFrontmatter EXCEPT !.title = JStr(<<"n", " ", "x">>)],
           body |-> <<"a", " ", "n">>]
\* a file whose body holds the text n.md once and two more runs of four
\* characters that the pattern n.md matches
Dotted == Plain(<<"n", ".", "m", "d", " ", "n", "x", "m", "d", " ", "n", "y", "m", "d">>)
\* a file whose body mentions n twice
MentionsTwice == Plain(<<"n", " ", "n">>)

\* the vault configuration with the fuzzy threshold loadVaultConfig read
StagesConfig(threshold) ==
  [allowedDirectories |-> <<Vault>>, promptsPath |-> PromptsPath,
   templatesPath |-> TemplatesPath, templaterLite |-> TRUE,
   promptFuzzyMatchThreshold |-> threshold]

\* search.promptFuzzyMatchThreshold of the defaults
DefaultFuzzyThreshold == Score(3, 10)

StagesThresholds == {DefaultFuzzyThreshold, Score(1, 10), Score(6, 10)}

StagesFs ==
  { \* only the lower-case .txt and .json files of the name P
    Tree(<<File(FilePTxt, Plain(<<"x">>))>>,
         <<File(FilePJson, Plain(<<"x">>)), File(FilePx, Plain(<<"y">>))>>,
         <<>>),
    \* every variation of the exact stage, and files that declare the alias
    Tree(<<File(FileN, Plain(<<"x">>)), File(FileUpperPMd, Plain(<<"x">>)),
           File(FilePTxt, Plain(<<"y">>))>>,
         <<File(FileQ, Plain(<<"x">>)), File(FileK, Aliased), File(FileM, Aliased)>>,
         <<>>),
    \* scores on both sides of the thresholds
    Tree(<<File(FilePxyLong, Plain(<<"x">>)), File(FileNx, Plain(<<"x">>))>>,
         <<File(FileK, MentionsTwice), File(FileM, Dotted), File(FileQ, Titled)>>,
         <<>>),
    TreeWithErrors }

StagesNames == {NameN, NameP, NameUpperP, NamePxy, NameNMd}
StagesPaths == {PromptsPath, TemplatesPath}

InitStages ==
  /\ fs \in StagesFs
  /\ config \in {StagesConfig(t) : t \in StagesThresholds}
  /\ pc = "idle"
  /\ call = NoCall
  /\ result = NoResult
  /\ log = <<>>

\* the stage called on a name and a base path returns out
StageReturns(handler, name, basePath, out) ==
  /\ call' = [handler |-> handler, promptName |-> name, basePath |-> basePath]
  /\ result' = [found |-> out.found, path |-> out.path]
  /\ log' = out.log
  /\ pc' = "done"
  /\ UNCHANGED <<fs, config>>

\* a call of PromptManager.findExactMatch
FindExactMatch ==
  /\ pc = "idle"
  /\ \E name \in StagesNames, basePath \in StagesPaths :
       StageReturns("findExactMatch", name, basePath,
                    findExactMatch(fs, config, basePath, name))

\* a call of PromptManager.findByAlias
FindByAlias ==
  /\ pc = "idle"
  /\ \E name \in StagesNames, basePath \in StagesPaths :
       StageReturns("findByAlias", name, basePath,
                    findByAlias(fs, config, basePath, name))

\* a call of PromptManager.findFuzzyMatch
FindFuzzyMatch ==
  /\ pc = "idle"
  /\ \E name \in StagesNames, basePath \in StagesPaths :
       StageReturns("findFuzzyMatch", name, basePath,
                    findFuzzyMatch(fs, config, basePath, name))

\* a call of PromptManager.findByContent
FindByContent ==
  /\ pc = "idle"
  /\ \E name \in StagesNames, basePath \in StagesPaths :
       StageReturns("findByContent", name, basePath,
                    findByContent(fs, config, basePath, name))

\* the files directly in a base path that the stages score
StagesFiles(basePath) ==
  CandidateFiles(readdir(fs, resolveVaultPath(basePath, config.allowedDirectories)).entries)

\* the score findFuzzyMatch gives one file of the directory
ScoreFilename ==
  /\ pc = "idle"
  /\ \E name \in StagesNames, basePath \in StagesPaths :
       \E i \in 1..Len(StagesFiles(basePath)) :
          /\ call' = [handler |-> "calculateFuzzyScore", promptName |-> name,
                      basePath |-> basePath, filename |-> StagesFiles(basePath)[i].name]
          /\ result' = [score |-> calculateFuzzyScore(ToLowerCase(name),
                                    ToLowerCase(StagesFiles(basePath)[i].name))]
  /\ pc' = "done"
  /\ UNCHANGED <<fs, config, log>>

\* the score findByContent gives one readable file of the directory
ScoreContent ==
  /\ pc = "idle"
  /\ \E name \in StagesNames, basePath \in StagesPaths :
       \E i \in 1..Len(StagesFiles(basePath)) :
          /\ StagesFiles(basePath)[i].readable
          /\ ~StagesFiles(basePath)[i].doc.bad
          /\ call' = [handler |-> "contentScore", promptName |-> name,
                      basePath |-> basePath, filename |-> StagesFiles(basePath)[i].name,
                      doc |-> StagesFiles(basePath)[i].doc]
          /\ result' = [score |-> ContentScore(parseObsidianFile(StagesFiles(basePath)[i].doc),
                                               ToLowerCase(name))]
  /\ pc' = "done"
  /\ UNCHANGED <<fs, config, log>>

NextStages ==
  \/ FindExactMatch \/ FindByAlias \/ FindFuzzyMatch \/ FindByContent
  \/ ScoreFilename \/ ScoreContent \/ Return

SpecStages == InitStages /\ [][NextStages]_vars

----------------------------------------------------------------------------
(* Properties of the stages and of their scores                            *)

FuzzyScored == pc = "done" /\ call.handler = "calculateFuzzyScore"

\* the file name is the name followed by an allowed extension, letter case
\* aside
EqualUpToExtension(name, filename) ==
  \E ext \in AllowedExtensions : ToLowerCase(filename) = ToLowerCase(name) \o ext

\* C24: the fuzzy score of a name against the name of a file of an allowed
\* type that equals it up to letter case and up to the extension is 1.0
C24_EqualScoresOne ==
  (FuzzyScored /\ EqualUpToExtension(call.promptName, call.filename))
    => result.score = Score(1, 1)

\* the name p scored against p.json: 0.8 * (1 / 6)
C24_JsonScoresLess ==
  /\ FuzzyScored
  /\ call.promptName = NameP
  /\ call.filename = FilePJson
  /\ result.score = Product8(1, 6)

ExactDone == pc = "done" /\ call.handler = "findExactMatch"

\* the directory a stage searches for a base path
StageDirectory(basePath) == resolveVaultPath(basePath, config.allowedDirectories)

\* the variation names a file of an allowed type inside the allowed roots,
\* in a directory that can be accessed
VariationExists(variation, searchPath) ==
  LET validated == validateVaultPath(variation, searchPath, config.allowedDirectories)
  IN  /\ validated.ok
      /\ IsFile(fs, validated.path)
      /\ ~getPathInfo(fs, validated.path).threw
      /\ isAllowedFileType(PathStr(validated.path))

\* the exact stage returned the first of the variations that exists, or
\* nothing when none exists
ReturnsFirstOf(variations, searchPath) ==
  LET existing == {k \in 1..Len(variations) : VariationExists(variations[k], searchPath)}
      first == CHOOSE k \in existing : \A j \in existing : k <= j
  IN  IF existing = {} THEN ~result.found
      ELSE /\ result.found
           /\ result.path = validateVaultPath(variations[first], searchPath,
                                              config.allowedDirectories).path

\* the variations the exact stage is said to try: the name, with .md, with
\* .txt, and the lower-cased version of each of the three
StatedVariations(name) ==
  <<name, name \o ExtMd, name \o ExtTxt,
    ToLowerCase(name), ToLowerCase(name) \o ExtMd, ToLowerCase(name) \o ExtTxt>>

\* C25: the exact stage returns the first existing file of an allowed type
\* among the name, the name with .md, the name with .txt and the lower-cased
\* versions of these three, tried in this order
C25_SixVariations ==
  ExactDone => ReturnsFirstOf(StatedVariations(call.promptName),
                              StageDirectory(call.basePath))

\* the name P in a directory that holds p.txt only: nothing is found
C25_LowerTxtMissed ==
  /\ ExactDone
  /\ call.promptName = NameUpperP
  /\ VariationExists(FilePTxt, StageDirectory(call.basePath))
  /\ ~result.found

\* the positions, in the listing of the base directory, of the files that
\* pass Allowed and declare the name of the last call as an alias
AliasPositions(basePath, Allowed(_)) ==
  IF ~Listable(DirectoryOf(basePath)) THEN {}
  ELSE {i \in 1..Len(fs[DirectoryOf(basePath)].entries) :
          /\ DeclaresAlias(fs[DirectoryOf(basePath)].entries[i])
          /\ Allowed(fs[DirectoryOf(basePath)].entries[i].name)}

\* discovery returned the first file of the positions
FirstOfPositions(basePath, positions) ==
  LET first == CHOOSE i \in positions : \A j \in positions : i <= j
  IN  /\ result.resolved
      /\ result.chosen.path = Append(DirectoryOf(basePath),
                                     fs[DirectoryOf(basePath)].entries[first].name)

\* the directory i of the search is the first in which any stage can find
\* something, and its exact stage finds nothing
AliasStageDecides(i) ==
  /\ \A j \in 1..(i - 1) : ~AnyStageFinds(StagesOf(SearchedPaths[j]))
  /\ ~StagesOf(SearchedPaths[i])[1].found

\* C26: when the exact stage finds nothing in a directory and a file of an
\* allowed type in it declares an alias equal to the name, letter case aside,
\* discovery returns the first such file of the listing
C26_FirstAliasFile ==
  SimplifiedDone =>
    \A i \in 1..Len(SearchedPaths) :
       (AliasStageDecides(i) /\ AliasPositions(SearchedPaths[i], EndsWithAllowed) # {})
         => FirstOfPositions(SearchedPaths[i],
                             AliasPositions(SearchedPaths[i], EndsWithAllowed))

\* the file md, which declares the alias, is returned although m.md, later
\* in the listing, is the first file with an allowed extension that does
C26_ExtensionlessFirst ==
  /\ SimplifiedDone
  /\ \E i \in 1..Len(SearchedPaths) :
        /\ AliasStageDecides(i)
        /\ AliasPositions(SearchedPaths[i], EndsWithAllowed) # {}
        /\ result.resolved
        /\ result.chosen.path = Append(DirectoryOf(SearchedPaths[i]), FileMd)

FuzzyDone == pc = "done" /\ call.handler = "findFuzzyMatch"

\* the fuzzy score of the i-th candidate file of the directory searched
CandidateScore(i) ==
  calculateFuzzyScore(ToLowerCase(call.promptName),
                      ToLowerCase(StagesFiles(call.basePath)[i].name))

\* the fuzzy stage returned a candidate whose score is above the threshold
\* and is the highest of the directory, and that exists as a file; it
\* returned nothing when no candidate is above the threshold
FuzzyRule(threshold) ==
  /\ result.found =>
       /\ \E i \in 1..Len(StagesFiles(call.basePath)) :
             /\ result.path = Append(StageDirectory(call.basePath),
                                     StagesFiles(call.basePath)[i].name)
             /\ ScoreGT(CandidateScore(i), threshold)
             /\ \A j \in 1..Len(StagesFiles(call.basePath)) :
                   ~ScoreGT(CandidateScore(j), CandidateScore(i))
       /\ IsFile(fs, result.path)
  /\ (\A i \in 1..Len(StagesFiles(call.basePath)) :
         ~ScoreGT(CandidateScore(i), threshold)) => ~result.found

\* C27: the fuzzy stage returns a file only if its score is strictly above
\* the configured threshold promptFuzzyMatchThreshold; the file has the
\* highest score of the directory and exists; no candidate above the
\* threshold means no match
C27_ConfiguredThreshold ==
  FuzzyDone => FuzzyRule(config.promptFuzzyMatchThreshold)

\* with the threshold configured as 0.6, px.md is returned for the name p
\* with the score 0.4
C27_BelowConfigured ==
  /\ FuzzyDone
  /\ config.promptFuzzyMatchThreshold = Score(6, 10)
  /\ call.promptName = NameP
  /\ result.found
  /\ Basename(result.path) = FilePx
  /\ ~ScoreGT(calculateFuzzyScore(NameP, FilePx), config.promptFuzzyMatchThreshold)

ContentScored == pc = "done" /\ call.handler = "contentScore"
ContentDone == pc = "done" /\ call.handler = "findByContent"

RECURSIVE OccurrencesFrom(_, _, _)
\* the number of occurrences of the text p in s from position i on, counted
\* one after the other
OccurrencesFrom(s, p, i) ==
  IF i > Len(s) + 1 THEN 0
  ELSE IF MatchAt(s, p, i)
    THEN 1 + OccurrencesFrom(s, p, i + (IF Len(p) > 0 THEN Len(p) ELSE 1))
  ELSE OccurrencesFrom(s, p, i + 1)

\* the occurrences of the query in the body of a document
BodyOccurrences(doc, query) ==
  OccurrencesFrom(ToLowerCase(Trim(doc.body)), query, 1)

\* the title of the document contains the query
TitleContains(doc, query) ==
  /\ doc.fm.title.t = "str"
  /\ doc.fm.title.v # <<>>
  /\ Includes(ToLowerCase(doc.fm.title.v), query)

\* 0.8 * (query length / title length) when the title contains the query,
\* plus min(0.5, 0.1 * occurrences of the query in the body)
StatedContentScore(doc, query) ==
  ScoreAdd(IF TitleContains(doc, query)
           THEN Score(8 * Len(query), 10 * Len(doc.fm.title.v)) ELSE Zero,
           Score(IF BodyOccurrences(doc, query) < 5
                 THEN BodyOccurrences(doc, query) ELSE 5, 10))

\* the two scores are the same number, rounding aside
SameValue(a, b) == a.n * b.d = b.n * a.d

\* the entry of the directory searched that the content stage returned
ReturnedEntry ==
  LET files == StagesFiles(call.basePath)
  IN  files[CHOOSE i \in 1..Len(files) : files[i].name = Basename(result.path)]

\* C28: the content score of a file is 0.8 * (query length / title length)
\* when the title contains the query, plus min(0.5, 0.1 * occurrences of the
\* query in the body), for every query; a file returned for its body alone
\* holds the query at least three times
C28_ContentScore ==
  /\ ContentScored =>
       SameValue(result.score, StatedContentScore(call.doc, ToLowerCase(call.promptName)))
  /\ (ContentDone /\ result.found
        /\ ~TitleContains(ReturnedEntry.doc, ToLowerCase(call.promptName)))
       => BodyOccurrences(ReturnedEntry.doc, ToLowerCase(call.promptName)) >= 3

\* the query n.md: the file whose body holds it once is returned
C28_PatternOvercounts ==
  /\ ContentDone
  /\ call.promptName = NameNMd
  /\ result.found
  /\ ReturnedEntry.doc = Dotted
  /\ BodyOccurrences(Dotted, NameNMd) = 1

----------------------------------------------------------------------------
(* Concurrent file creation: two callers of executeFileCreation.  Each     *)
(* await of the handler is a point at which the other caller may run:      *)
(* after findAvailableFilePath, after mkdir, after writeFile.  In this     *)
(* specification pc, call, result and log hold one value per caller.       *)

Callers == {1, 2}

\* the paths the callers ask for: a new file of the vault, the prompt file
\* that exists, a file in a directory that does not exist yet
ConcurrentTargets ==
  { <<"n">>,
    <<"p", "/", "c", ".", "m", "d">>,
    <<"t", "/", "x", "/", "k">> }

ConcurrentContents == {<<"a">>, <<"b">>}

Idle == [handler |-> "none"]
CreationFailed == [success |-> FALSE, path |-> <<>>, wasIncremented |-> FALSE]

InitConcurrent ==
  /\ fs = CreationFs
  /\ config = VaultConfig(TRUE)
  /\ pc = [c \in Callers |-> "idle"]
  /\ call = [c \in Callers |-> Idle]
  /\ result = [c \in Callers |-> NoResult]
  /\ log = [c \in Callers |-> <<>>]

\* the caller c has the answer of findAvailableFilePath for its request
Selected(c, path, content, availablePath) ==
  /\ call' = [call EXCEPT ![c] = [handler |-> "executeFileCreation", path |-> path,
                                  content |-> content,
                                  finalPath |-> availablePath.path,
                                  wasIncremented |-> availablePath.incremented]]
  /\ log' = [log EXCEPT ![c] = availablePath.log]
  /\ IF availablePath.threw
     THEN /\ pc' = [pc EXCEPT ![c] = "done"]
          /\ result' = [result EXCEPT ![c] = CreationFailed]
     ELSE /\ pc' = [pc EXCEPT ![c] = "selected"]
          /\ UNCHANGED result
  /\ UNCHANGED <<fs, config>>

\* executeFileCreation up to the answer of findAvailableFilePath
SelectPath ==
  \E c \in Callers, path \in ConcurrentTargets, content \in ConcurrentContents :
     /\ pc[c] = "idle"
     /\ Selected(c, path, content,
                 findAvailableFilePath(fs, resolveVaultPath(path, config.allowedDirectories),
                                       <<>>))

\* the caller c has the answer of mkdir
DirectoryMade(c, made) ==
  /\ FileCount(made.fs) <= MaxFiles
  /\ fs' = made.fs
  /\ log' = [log EXCEPT ![c] = Append(@, Access("mkdir", Parent(call[c].finalPath)))]
  /\ IF made.ok
     THEN /\ pc' = [pc EXCEPT ![c] = "made"]
          /\ UNCHANGED result
     ELSE /\ pc' = [pc EXCEPT ![c] = "done"]
          /\ result' = [result EXCEPT ![c] = CreationFailed]
  /\ UNCHANGED <<config, call>>

\* await mkdir(dirname(finalPath), {recursive: true})
MakeDirectory ==
  \E c \in Callers :
     /\ pc[c] = "selected"
     /\ DirectoryMade(c, mkdir(fs, Parent(call[c].finalPath)))

\* the caller c has the answer of writeFile
FileWritten(c, written) ==
  /\ FileCount(written.fs) <= MaxFiles
  /\ fs' = written.fs
  /\ log' = [log EXCEPT ![c] = Append(@, Access("write", call[c].finalPath))]
  /\ pc' = [pc EXCEPT ![c] = "done"]
  /\ result' = [result EXCEPT ![c] =
                  IF written.ok
                  THEN [success |-> TRUE, path |-> call[c].finalPath,
                        wasIncremented |-> call[c].wasIncremented]
                  ELSE CreationFailed]
  /\ UNCHANGED <<config, call>>

\* await writeFile(finalPath, content, 'utf-8'), and the result returned
WriteFile ==
  \E c \in Callers :
     /\ pc[c] = "made"
     /\ FileWritten(c, writeFile(fs, call[c].finalPath, call[c].content))

\* the caller takes the result of its call
ReturnToCaller ==
  \E c \in Callers :
     /\ pc[c] = "done"
     /\ pc' = [pc EXCEPT ![c] = "idle"]
     /\ call' = [call EXCEPT ![c] = Idle]
     /\ result' = [result EXCEPT ![c] = NoResult]
     /\ log' = [log EXCEPT ![c] = <<>>]
     /\ UNCHANGED <<fs, config>>

NextConcurrent == SelectPath \/ MakeDirectory \/ WriteFile \/ ReturnToCaller

SpecConcurrent == InitConcurrent /\ [][NextConcurrent]_vars

\* the caller c has returned from a creation that succeeded
Created(c) == pc[c] = "done" /\ result[c].success

\* C29: file creation never writes over an existing file: two callers whose
\* creations succeeded wrote different destinations, and the file each
\* created holds what that caller wrote
C29_NeverOverwrites ==
  \A c \in Callers :
     Created(c) =>
       /\ IsFile(fs, result[c].path)
       /\ EntryOf(fs, result[c].path).doc = WrittenDoc(call[c].content)
       /\ \A d \in Callers \ {c} : Created(d) => result[d].path # result[c].path

\* both callers created the same destination; it holds the text of one
C29_SameDestination ==
  /\ Created(1) /\ Created(2)
  /\ result[1].path = result[2].path
  /\ ~result[1].wasIncremented
  /\ call[1].content # call[2].content
  /\ EntryOf(fs, result[1].path).doc = WrittenDoc(call[2].content)

----------------------------------------------------------------------------
(* The rate limiter.  In this specification config holds the RateLimiter   *)
(* object (its two parameters and its map requests), log the calls made on *)
(* it so far with their times and answers, call and result the last call   *)
(* and its answer.                                                         *)

\* the greatest maxRequests and windowMs a limiter is constructed with, the
\* last instant of the clock, and the most calls made on a limiter
MaxRequests == 2
MaxWindow == 2
MaxTime == 3
MaxCalls == 4

Identifiers == {"a", "b"}

\* new RateLimiter(maxRequests, windowMs)
RateLimiter(maxRequests, windowMs) ==
  [maxRequests |-> maxRequests, windowMs |-> windowMs, requests |-> <<>>]

\* this.requests.get(identifier) || []
RequestsOf(limiter, identifier) ==
  IF identifier \in DOMAIN limiter.requests THEN limiter.requests[identifier] ELSE <<>>

\* a variant that records the refused calls as well
isAllowedRecordingRefused(limiter, identifier, now) ==
  LET Valid(time) == now - time < limiter.windowMs
      validRequests == SelectSeq(RequestsOf(limiter, identifier), Valid)
  IN  [allowed |-> Len(validRequests) < limiter.maxRequests,
       limiter |-> [limiter EXCEPT !.requests =
                      (identifier :> Append(validRequests, now)) @@ @]]

\* RateLimiter.isAllowed at the time now: [allowed, limiter]
isAllowed(limiter, identifier, now) ==
  LET Valid(time) == now - time < limiter.windowMs
      validRequests == SelectSeq(RequestsOf(limiter, identifier), Valid)
  IN  IF Len(validRequests) >= limiter.maxRequests
      THEN [allowed |-> FALSE, limiter |-> limiter]
      ELSE [allowed |-> TRUE,
            limiter |-> [limiter EXCEPT !.requests =
                           (identifier :> Append(validRequests, now)) @@ @]]

\* RateLimiter.reset
reset(limiter, identifier) ==
  [limiter EXCEPT !.requests =
     [id \in (DOMAIN @) \ {identifier} |-> @[id]]]

\* Date.now() does not run backwards: the times from the last call's on
ClockFrom == IF log = <<>> THEN 0 ELSE log[Len(log)].now
Instants == ClockFrom..MaxTime

InitRateLimiter ==
  /\ fs = CreationFs
  /\ config \in {RateLimiter(m, w) : m \in 1..MaxRequests, w \in 1..MaxWindow}
  /\ pc = "idle"
  /\ call = NoCall
  /\ result = NoResult
  /\ log = <<>>

\* the call c made at its time gave the answer allowed and left the limiter
Answered(c, allowed, limiter) ==
  /\ call' = c
  /\ result' = [allowed |-> allowed]
  /\ log' = Append(log, [method |-> c.handler, identifier |-> c.identifier,
                         now |-> c.now, allowed |-> allowed])
  /\ config' = limiter
  /\ pc' = "done"
  /\ UNCHANGED fs

\* a call of isAllowed
IsAllowed ==
  /\ Len(log) < MaxCalls
  /\ \E identifier \in Identifiers, now \in Instants :
       Answered([handler |-> "isAllowed", identifier |-> identifier, now |-> now],
                isAllowed(config, identifier, now).allowed,
                isAllowed(config, identifier, now).limiter)

\* a call of reset
Reset ==
  /\ Len(log) < MaxCalls
  /\ \E identifier \in Identifiers, now \in Instants :
       Answered([handler |-> "reset", identifier |-> identifier, now |-> now],
                TRUE, reset(config, identifier))

NextRateLimiter == IsAllowed \/ Reset

SpecRateLimiter == InitRateLimiter /\ [][NextRateLimiter]_vars

\* the call i was an allowed isAllowed for the identifier
AllowedCall(i, identifier) ==
  /\ log[i].method = "isAllowed"
  /\ log[i].identifier = identifier
  /\ log[i].allowed

\* a reset of the identifier lies between the calls i and k
ResetBetween(i, k, identifier) ==
  \E j \in (i + 1)..(k - 1) :
     log[j].method = "reset" /\ log[j].identifier = identifier

\* the allowed calls for the identifier, up to the call k, less than
\* windowMs before it
InWindow(k, identifier) ==
  {i \in 1..k : /\ AllowedCall(i, identifier)
                /\ log[k].now - log[i].now < config.windowMs}

\* those of InWindow(k) that no reset of the identifier separates from k
InWindowSinceReset(k, identifier) ==
  {i \in InWindow(k, identifier) : ~ResetBetween(i, k, identifier)}

\* the answer of every isAllowed call is decided by the allowed calls alone
\* that were made for its identifier since the last reset and less than
\* windowMs before: refused calls and other identifiers play no part
AnswersFromAllowedCalls ==
  \A k \in 1..Len(log) :
     log[k].method = "isAllowed" =>
       (log[k].allowed <=>
          Cardinality(InWindowSinceReset(k, log[k].identifier) \ {k})
            < config.maxRequests)

\* the first isAllowed call for an identifier after a reset of it is allowed
AllowedAfterReset ==
  \A i \in 1..Len(log) :
     log[i].method = "reset" =>
       \A k \in (i + 1)..Len(log) :
          (/\ log[k].method = "isAllowed"
           /\ log[k].identifier = log[i].identifier
           /\ \A j \in (i + 1)..(k - 1) : log[j].identifier # log[i].identifier)
            => log[k].allowed

\* C30, as stated: at most maxRequests calls for an identifier are allowed
\* within any window of windowMs, whatever isAllowed and reset calls are
\* made; refused calls record nothing, identifiers do not interfere, and
\* the call after a reset is allowed
C30_WindowBound ==
  /\ \A k \in 1..Len(log) : \A identifier \in Identifiers :
        Cardinality(InWindow(k, identifier)) <= config.maxRequests
  /\ AnswersFromAllowedCalls
  /\ AllowedAfterReset

\* C30, amended: at most maxRequests calls for an identifier are allowed
\* within any window of windowMs in which the identifier is not reset;
\* refused calls record nothing, identifiers do not interfere, and the call
\* after a reset is allowed
C30_WindowBoundSinceReset ==
  /\ \A k \in 1..Len(log) : \A identifier \in Identifiers :
        Cardinality(InWindowSinceReset(k, identifier)) <= config.maxRequests
  /\ AnswersFromAllowedCalls
  /\ AllowedAfterReset

\* maxRequests calls were allowed, the identifier was reset, and one more
\* call is allowed less than windowMs after the first
C30_AllowedAgainAfterReset ==
  /\ log # <<>>
  /\ AllowedCall(Len(log), call.identifier)
  /\ Cardinality(InWindowSinceReset(Len(log), call.identifier)) = 1
  /\ Cardinality(InWindow(Len(log), call.identifier)) = config.maxRequests + 1
  /\ \E k \in 1..Len(log) : ~log[k].allowed

====
